---- MODULE Spec2Model ----
(***************************************************************************)
(* Model of the Cypress automation framework's locator registry            *)
(* (cypress/support/utils/locatorHelper.js), selector resolver, existence  *)
(* probes (elementExists, BasePage.exists, safeClick, safeType) and        *)
(* error/retry envelope (cypress/support/utils/errorHandler.js: retry,     *)
(* withErrorHandling, handleError), together with the support file's      *)
(* uncaught:exception handler and authentication commands (loginOnce,      *)
(* loginViaApi, apiRequestWithToken), apiHelper's retryRequest and         *)
(* authenticatedRequest, and scripts/sendEmailReport.js.                   *)
(*                                                                         *)
(* Strings the code inspects character by character (selectors) are        *)
(* sequences of one-character strings.  Optional values (undefined in      *)
(* JavaScript) are sequences of length 0 or 1.                             *)
(***************************************************************************)
EXTENDS Integers, Sequences, FiniteSets, TLC

VARIABLES
    locatorCache,   \* locatorHelper.js: const locatorCache = {}
    cacheAux,       \* history: per cached page, when its read was issued / run
    queue,          \* the Cypress command queue of the running test
    phase,          \* "body": test function executing; "run": queue draining;
                    \* "failed": a command has failed the test
    epoch,          \* history: number of clearLocatorCache calls so far
    reads,          \* history: readYamlFile tasks run per page since last clear
    calledSince,    \* history: page had a getLocator call since the last clear
    lastRes,        \* history: outcome of the most recent resolution
    tests,          \* number of tests started
    args,           \* the arguments of the function call under study
    ret,            \* <<>> before the call, <<its outcome>> after it; for the
                    \* authentication commands and the email script, the
                    \* history of the calls or checks made
    fnPlan,         \* retry: what fn does on its 1st, 2nd, ... invocation
    maxRetries,     \* retry: the maxRetries argument
    delay,          \* retry: the delay argument
    retriesLeft,    \* retry: the argument of the running attempt(retriesLeft)
    lastError,      \* retry: let lastError
    calls,          \* history: invocations of fn so far
    waits,          \* history: the cy.wait(delay) calls made so far
    waitsDone,      \* history: how many of those cy.wait commands have run
    doneAtCall,     \* history: waitsDone at the start of each invocation
    rState,         \* "pending", "attempting", "succeeded" or "failed"
    rOut,           \* <<>>, or <<the value retry resolved with / the error it raised>>
    dom,            \* the CSS selectors that match an element of the page
    events,         \* history: probes made, clicks issued and clicks performed
    failure,        \* <<>>, or <<the error that reached the runner's failure channel>>
    logsRun,        \* history: cy.task('log') commands that have run
    shotsRun,       \* history: cy.screenshot commands that have run
    handled,        \* history: the calls of handleError made so far
    cmdLog,         \* the Cypress command log: what the run has displayed
    authToken,      \* Cypress.env('authToken'): <<>> while unset
    cookies,        \* the browser's cookies, by name
    requests,       \* history: the HTTP requests sent so far
    runLog,         \* the run log: the messages given to cy.task('log')
    sessions,       \* cy.session's cache: per session id, the saved cookies
    loginCalls,     \* history: the calls of cy.loginOnce made so far
    mpc,            \* sendEmailReport: where the script is
    mailsSent,      \* history: the mails handed to transporter.sendMail
    exitCode        \* <<>>, or <<the code given to process.exit>>

lvars == <<locatorCache, cacheAux, queue, phase, epoch, reads,
           calledSince, lastRes, tests>>

pvars == <<args, ret>>

rvars == <<fnPlan, maxRetries, delay, retriesLeft, lastError, calls, waits,
           waitsDone, doneAtCall, rState, rOut>>

evars == <<dom, events, failure, logsRun, shotsRun, handled, cmdLog>>

avars == <<authToken, cookies, requests, runLog>>

svars == <<sessions, loginCalls>>

mvars == <<mpc, mailsSent, exitCode>>

ovars == <<avars, svars, mvars>>

vars == <<lvars, pvars, rvars, evars, ovars>>

\* what the actions of each part leave alone
notL == <<tests, pvars, rvars, evars, ovars>>
notP == <<lvars, rvars, evars, ovars>>
notR == <<lvars, pvars, evars, ovars>>
notE == <<locatorCache, cacheAux, epoch, reads, calledSince, lastRes,
          tests, pvars, rvars, ovars>>

(***************************************************************************)
(* Bounds                                                                  *)
(***************************************************************************)
MaxQueue  == 2      \* commands a test body issues
MaxTests  == 2      \* tests in a run
MaxVer    == 1      \* file versions 0..MaxVer
MaxClears == 1      \* clearLocatorCache calls in a run

Pages == {"login", "home"}
Keys  == {"k1", "k2"}
QKeys == {"k1"}     \* the keys the queued resolutions ask for

Digit == <<"0", "1", "2", "3", "4", "5", "6", "7", "8", "9">>

(***************************************************************************)
(* Errors.  A plain `new Error(msg)` has name "Error" and no type          *)
(* property (type = <<>>); a TestError carries type and details.           *)
(***************************************************************************)
ErrorTypes == [ELEMENT_NOT_FOUND |-> "ELEMENT_NOT_FOUND",
               TIMEOUT |-> "TIMEOUT",
               API_ERROR |-> "API_ERROR",
               VALIDATION_ERROR |-> "VALIDATION_ERROR",
               AUTHENTICATION_ERROR |-> "AUTHENTICATION_ERROR",
               NETWORK_ERROR |-> "NETWORK_ERROR",
               ASSERTION_ERROR |-> "ASSERTION_ERROR",
               UNKNOWN |-> "UNKNOWN"]

Error(msg) == [name |-> "Error", message |-> msg, type |-> <<>>, details |-> <<>>]

TestError(msg, type, details) ==
    [name |-> "TestError", message |-> msg, type |-> <<type>>, details |-> details]

NoError == [name |-> "", message |-> <<>>, type |-> <<>>, details |-> <<>>]

(***************************************************************************)
(* Locator documents.  A parsed YAML document, seen from the page it was   *)
(* loaded for: page = locators[`${pageName}Page`], flat =                  *)
(* locators[pageName], root = the element keys at the document root.  A    *)
(* namespace is <<>> (absent) or <<map>>; a map sends a key to <<>>        *)
(* (absent) or <<selector>>.                                               *)
(***************************************************************************)
NoKeys == [k \in Keys |-> <<>>]

Sel(p, k, v) == <<"#", k, Digit[v + 1]>>

\* The document the file <p>.yaml holds at version v: login nests its keys
\* under loginPage, home keeps them at the document root.
DocOf(p, v) ==
    IF p = "login"
    THEN [page |-> << [k \in Keys |-> IF k = "k1" THEN <<Sel(p, k, v)>> ELSE <<>>] >>,
          flat |-> <<>>,
          root |-> NoKeys]
    ELSE [page |-> <<>>,
          flat |-> <<>>,
          root |-> [k \in Keys |-> IF k = "k1" THEN <<Sel(p, k, v)>> ELSE <<>>]]

FilePath(p) == <<"cypress/locators/", p, ".yaml">>

\* path.resolve(__dirname, filePath)
AbsolutePath(filePath) == <<"<__dirname>/">> \o filePath

\* a slip: the error naming the path as given instead of the resolved one
readYamlFile_relative(p, v) ==
    IF v >= 0
    THEN [ok |-> TRUE, doc |-> <<DocOf(p, v)>>, err |-> NoError]
    ELSE [ok |-> FALSE, doc |-> <<>>,
          err |-> Error(<<"YAML file not found: ">> \o FilePath(p))]

\* readYamlFile task on a file found at version v (-1: fs.existsSync is false):
\* the parsed document, or the error it throws
readYamlFile(p, v) ==
    IF v >= 0
    THEN [ok |-> TRUE, doc |-> <<DocOf(p, v)>>, err |-> NoError]
    ELSE [ok |-> FALSE, doc |-> <<>>,
          err |-> Error(<<"YAML file not found: ">> \o AbsolutePath(FilePath(p)))]

\* a slip: the fallback to the document root left out
PageLocators_noRoot(doc) ==
    IF Len(doc.page) > 0 THEN doc.page[1]
    ELSE IF Len(doc.flat) > 0 THEN doc.flat[1]
    ELSE NoKeys

\* const pageLocators = locators[`${pageName}Page`] || locators[pageName] || locators
PageLocators(doc) ==
    IF Len(doc.page) > 0 THEN doc.page[1]
    ELSE IF Len(doc.flat) > 0 THEN doc.flat[1]
    ELSE doc.root

\* JavaScript truthiness of pageLocators[elementKey]: undefined and '' are falsy
Truthy(entry) == Len(entry) > 0 /\ Len(entry[1]) > 0

\* the .then callback of getLocator
getLocator(doc, p, k) ==
    LET selector == PageLocators(doc)[k]
    IN  IF ~Truthy(selector)
        THEN [ok |-> FALSE, sel |-> <<>>,
              err |-> Error(<<"Locator not found: ", p, ".", k>>)]
        ELSE [ok |-> TRUE, sel |-> selector[1], err |-> NoError]

(***************************************************************************)
(* The command queue.  Every command is a record with the same fields.     *)
(*   task      cy.task('readYamlFile', filePath).then(put in the cache)    *)
(*   wrap      cy.wrap(document captured at call time)                     *)
(* key is <<>> for loadLocators / getAllLocators, <<k>> for getLocator.    *)
(***************************************************************************)
Cmd(op, p, key, doc) ==
    [op |-> op, page |-> p, key |-> key, doc |-> doc, callEpoch |-> epoch,
     docIssue |-> IF Len(doc) > 0 THEN cacheAux[p].issue ELSE -1,
     docRead  |-> IF Len(doc) > 0 THEN cacheAux[p].read ELSE -1]

\* the synchronous part of loadLocators: the command it puts on the queue
loadLocators(p, key) ==
    IF Len(locatorCache[p]) > 0
    THEN Cmd("wrap", p, key, locatorCache[p])
    ELSE Cmd("task", p, key, <<>>)

NoAux == [issue |-> -1, read |-> -1]

NoRes == [kind |-> "none", page |-> "", key |-> <<>>, ok |-> TRUE,
          sel |-> <<>>, doc |-> <<>>, err |-> NoError, callEpoch |-> 0,
          docIssue |-> -1, docRead |-> -1]

\* the outcome of a resolution that obtained document d
Resolution(c, d, issue, read) ==
    LET r == IF Len(c.key) > 0 THEN getLocator(d, c.page, c.key[1])
             ELSE [ok |-> TRUE, sel |-> <<>>, err |-> NoError]
    IN  [kind |-> IF Len(c.key) > 0 THEN "getLocator" ELSE "loadLocators",
         page |-> c.page, key |-> c.key, ok |-> r.ok, sel |-> r.sel,
         doc |-> <<d>>, err |-> r.err, callEpoch |-> c.callEpoch,
         docIssue |-> issue, docRead |-> read]

\* what Cypress fails a cy.task with when the task's handler threw err
TaskFailed(task, err) ==
    [name |-> "CypressError",
     message |-> <<"cy.task('", task, "') failed with the following error: > ">>
                    \o err.message,
     type |-> <<>>, details |-> <<>>]

\* the outcome of a resolution whose readYamlFile task threw err
ReadFailure(c, err) ==
    [NoRes EXCEPT !.kind = "readYamlFile", !.page = c.page,
                  !.key = c.key, !.ok = FALSE,
                  !.err = TaskFailed("readYamlFile", err),
                  !.callEpoch = c.callEpoch]

\* the state of the retry helper while it is not under study
RetryIdle ==
    /\ fnPlan = <<>>
    /\ maxRetries = 0
    /\ delay = 0
    /\ retriesLeft = 0
    /\ lastError = <<>>
    /\ calls = 0
    /\ waits = <<>>
    /\ waitsDone = 0
    /\ doneAtCall = <<>>
    /\ rState = "pending"
    /\ rOut = <<>>

\* the state of the error envelope while it is not under study
EnvelopeIdle ==
    /\ dom = {}
    /\ events = <<>>
    /\ failure = <<>>
    /\ logsRun = 0
    /\ shotsRun = 0
    /\ handled = <<>>
    /\ cmdLog = <<>>

CookieNames == {"session", "auth_token"}

\* the state of the authentication commands while they are not under study
AuthIdle ==
    /\ authToken = <<>>
    /\ cookies = [n \in CookieNames |-> <<>>]
    /\ requests = <<>>
    /\ runLog = <<>>

\* the (username, password) pairs the tests log in with
Creds == {<<"alice", "hunter2">>, <<"alice", "s3cret">>, <<"bob", "hunter2">>}

\* a slip: the session keyed by the username alone
sessionId_userOnly(c) == <<c[1]>>

\* the id loginOnce gives cy.session: [username, password]
sessionId(c) == c

SessionIds == Creds \cup {<<c[1]>> : c \in Creds}

\* the state of cy.session while it is not under study
SessionIdle ==
    /\ sessions = [id \in SessionIds |-> <<>>]
    /\ loginCalls = <<>>

\* the state of the email script while it is not under study
MailIdle ==
    /\ mpc = "start"
    /\ mailsSent = <<>>
    /\ exitCode = <<>>

OthersIdle == AuthIdle /\ SessionIdle /\ MailIdle

InitLocator ==
    /\ OthersIdle
    /\ RetryIdle
    /\ EnvelopeIdle
    /\ locatorCache = [p \in Pages |-> <<>>]
    /\ cacheAux = [p \in Pages |-> NoAux]
    /\ queue = <<>>
    /\ phase = "body"
    /\ epoch = 0
    /\ reads = [p \in Pages |-> 0]
    /\ calledSince = [p \in Pages |-> FALSE]
    /\ lastRes = NoRes
    /\ tests = 1
    /\ args = <<>>
    /\ ret = <<>>

\* a test body calls getLocator (directly, or through getElement,
\* waitForElement or a page-object method): its command joins the queue
CallGetLocator(p, k) ==
    /\ phase = "body"
    /\ Len(queue) < MaxQueue
    /\ queue' = Append(queue, loadLocators(p, <<k>>))
    /\ calledSince' = [calledSince EXCEPT ![p] = TRUE]
    /\ UNCHANGED <<locatorCache, cacheAux, phase, epoch, reads, lastRes>>
    /\ UNCHANGED notL

\* the callback of a running command (cy.then(() => getLocator(p, k)))
\* calls getLocator: Cypress runs its command before the ones still queued
CallbackGetLocator(p, k) ==
    /\ phase = "run"
    /\ Len(queue) < MaxQueue
    /\ queue' = <<loadLocators(p, <<k>>)>> \o queue
    /\ calledSince' = [calledSince EXCEPT ![p] = TRUE]
    /\ UNCHANGED <<locatorCache, cacheAux, phase, epoch, reads, lastRes>>
    /\ UNCHANGED notL

\* clearLocatorCache is called, by a test body or by a callback:
\* Object.keys(locatorCache).forEach(key => delete locatorCache[key])
clearLocatorCache ==
    /\ epoch < MaxClears
    /\ locatorCache' = [p \in Pages |-> <<>>]
    /\ cacheAux' = [p \in Pages |-> NoAux]
    /\ epoch' = epoch + 1
    /\ reads' = [p \in Pages |-> 0]
    /\ calledSince' = [p \in Pages |-> FALSE]
    /\ UNCHANGED <<queue, phase, lastRes>>
    /\ UNCHANGED notL

\* the test function returns; Cypress starts running the queued commands
RunBody ==
    /\ phase = "body"
    /\ phase' = "run"
    /\ UNCHANGED <<locatorCache, cacheAux, queue, epoch, reads,
                   calledSince, lastRes>>
    /\ UNCHANGED notL

\* a failed command fails the test: the rest of its queue is dropped
Continue(res) == IF res.ok THEN Tail(queue) ELSE <<>>

After(res) == IF res.ok THEN "run" ELSE "failed"

\* cy.task('readYamlFile', filePath).then((locators) => { cache; return }).
\* The file is whatever the environment has made of it by now: absent, or
\* at any version.
RunTask ==
    /\ phase = "run"
    /\ Len(queue) > 0
    /\ Head(queue).op = "task"
    /\ \E v \in -1..MaxVer :
         LET c == Head(queue)
             f == readYamlFile(c.page, v)
         IN  /\ reads' = [reads EXCEPT ![c.page] = @ + 1]
             /\ IF f.ok
                THEN /\ locatorCache' = [locatorCache EXCEPT ![c.page] = f.doc]
                     /\ cacheAux' = [cacheAux EXCEPT
                                       ![c.page] = [issue |-> c.callEpoch, read |-> epoch]]
                     /\ lastRes' = Resolution(c, f.doc[1], c.callEpoch, epoch)
                ELSE /\ UNCHANGED <<locatorCache, cacheAux>>
                     /\ lastRes' = ReadFailure(c, f.err)
             /\ queue' = Continue(lastRes')
             /\ phase' = After(lastRes')
    /\ UNCHANGED <<epoch, calledSince>>
    /\ UNCHANGED notL

\* cy.wrap(locatorCache[pageName]): yields the document captured at call time
RunWrap ==
    /\ phase = "run"
    /\ Len(queue) > 0
    /\ Head(queue).op = "wrap"
    /\ LET c == Head(queue)
       IN  /\ lastRes' = Resolution(c, c.doc[1], c.docIssue, c.docRead)
           /\ queue' = Continue(lastRes')
           /\ phase' = After(lastRes')
    /\ UNCHANGED <<locatorCache, cacheAux, epoch, reads, calledSince>>
    /\ UNCHANGED notL

\* the queue has run out, or the test has failed: the test ends and the
\* next test's body starts; locatorCache is module state and persists
FinishTest ==
    /\ \/ phase = "run" /\ queue = <<>>
       \/ phase = "failed"
    /\ tests < MaxTests
    /\ phase' = "body"
    /\ tests' = tests + 1
    /\ UNCHANGED <<locatorCache, cacheAux, queue, epoch, reads,
                   calledSince, lastRes>>
    /\ UNCHANGED <<pvars, rvars, evars, ovars>>

NextLocator ==
    \/ \E p \in Pages, k \in QKeys : CallGetLocator(p, k)
    \/ \E p \in Pages, k \in QKeys : CallbackGetLocator(p, k)
    \/ clearLocatorCache
    \/ RunBody
    \/ RunTask
    \/ RunWrap
    \/ FinishTest

Init == InitLocator
Next == NextLocator
Spec == Init /\ [][Next]_vars

(***************************************************************************)
(* C1: between two consecutive clearLocatorCache calls (or from the start  *)
(* to the first), the document store is read at most once per page name,   *)
(* also when calls are issued before an earlier load has completed.        *)
(***************************************************************************)
C1_ReadAtMostOncePerPage == \A p \in Pages : reads[p] <= 1

(***************************************************************************)
(* C2: after clearLocatorCache, the next getLocator call for any page      *)
(* re-reads the document store (nothing is cached for the page until that  *)
(* call), and a getLocator started after a clear is never served a         *)
(* document whose read was issued before that clear.                       *)
(***************************************************************************)
C2_RereadAfterClear ==
    /\ \A p \in Pages :
          (epoch > 0 /\ ~calledSince[p]) => Len(locatorCache[p]) = 0
    /\ (lastRes.kind = "getLocator" /\ lastRes.callEpoch > 0)
          => lastRes.docIssue >= lastRes.callEpoch

\* seq has the elements of part, in order and adjacent
Contains(seq, part) ==
    \E i \in 1..(Len(seq) + 1) :
        /\ i + Len(part) - 1 <= Len(seq)
        /\ \A j \in 1..Len(part) : seq[i + j - 1] = part[j]

(***************************************************************************)
(* C16: when the locator file for pageName does not exist, loadLocators    *)
(* fails with an error whose message contains the resolved absolute path   *)
(* of the file, the cache gains no entry for pageName, and a later         *)
(* loadLocators for the same page attempts the read again: a call made     *)
(* while the page has no cache entry always issues the read.               *)
(***************************************************************************)
C16_MissingFileNotCached ==
    [][
        /\ (phase = "run" /\ phase' = "failed" /\ lastRes'.kind = "readYamlFile") =>
              /\ ~lastRes'.ok
              /\ Contains(lastRes'.err.message,
                          AbsolutePath(FilePath(lastRes'.page)))
              /\ locatorCache' = locatorCache
              /\ reads'[lastRes'.page] = reads[lastRes'.page] + 1
        /\ (Len(queue') = Len(queue) + 1) =>
              LET c == IF phase = "body" THEN queue'[Len(queue')] ELSE queue'[1]
              IN  Len(locatorCache[c.page]) = 0 => c.op = "task"
    ]_vars

\* C16's case: the read of a page's file failed, nothing was cached, and
\* the next test's call for that page has issued the read again
C16_Witness ==
    /\ lastRes.kind = "readYamlFile"
    /\ ~lastRes.ok
    /\ Len(locatorCache[lastRes.page]) = 0
    /\ tests = 2
    /\ phase = "body"
    /\ Len(queue) = 1
    /\ queue[1].op = "task"
    /\ queue[1].page = lastRes.page

(***************************************************************************)
(* C17: once a document for pageName has been loaded, every later          *)
(* getLocator(pageName, elementKey) for a key present in it returns the    *)
(* same selector string as the first call, even if the backing file has    *)
(* changed in the meantime, until clearLocatorCache is invoked: what       *)
(* getLocator yields from the loaded document changes in no step other     *)
(* than a clear.                                                           *)
(***************************************************************************)
C17_SelectorStableUntilClear ==
    [][
        \A p \in Pages, k \in Keys :
            (/\ Len(locatorCache[p]) > 0
             /\ getLocator(locatorCache[p][1], p, k).ok
             /\ epoch' = epoch)
                => /\ Len(locatorCache'[p]) > 0
                   /\ getLocator(locatorCache'[p][1], p, k)
                         = getLocator(locatorCache[p][1], p, k)
    ]_vars

(***************************************************************************)
(* getLocator's lookup as a function of the loaded document: the inputs    *)
(* are every document over Keys whose namespaces are absent or present,    *)
(* and whose entries are absent, empty or a selector naming its namespace. *)
(***************************************************************************)
NsMaps(tag) == [Keys -> {<<>>, << <<>> >>, << <<"#", tag>> >>}]

Namespaces(tag) == {<<>>} \cup {<<m>> : m \in NsMaps(tag)}

Docs == [page : Namespaces("P"), flat : Namespaces("F"), root : NsMaps("R")]

\* the state of the locator registry while a single function is studied
LocatorIdle ==
    /\ locatorCache = [p \in Pages |-> <<>>]
    /\ cacheAux = [p \in Pages |-> NoAux]
    /\ queue = <<>>
    /\ phase = "body"
    /\ epoch = 0
    /\ reads = [p \in Pages |-> 0]
    /\ calledSince = [p \in Pages |-> FALSE]
    /\ lastRes = NoRes
    /\ tests = 1

InitLookup ==
    /\ OthersIdle
    /\ args \in [doc : Docs, page : Pages, key : Keys]
    /\ ret = <<>>
    /\ LocatorIdle
    /\ RetryIdle
    /\ EnvelopeIdle

\* getLocator's callback runs on the loaded document
ApplyGetLocator ==
    /\ ret = <<>>
    /\ ret' = <<getLocator(args.doc, args.page, args.key)>>
    /\ UNCHANGED <<args, notP>>

NextLookup == ApplyGetLocator

SpecLookup == InitLookup /\ [][NextLookup]_vars

\* namespace ns holds a usable (non-empty) selector for key k
Holds(ns, k) == Len(ns) > 0 /\ Truthy(ns[1][k])

(***************************************************************************)
(* C3: getLocator returns the key's selector whenever at least one of      *)
(* document[pageName + 'Page'], document[pageName] or the document root    *)
(* contains elementKey, and fails with 'Locator not found' only when none  *)
(* of the three contains it.                                               *)
(***************************************************************************)
C3_FoundInAnyNamespace ==
    ret # <<>> =>
        LET d == args.doc
            k == args.key
            somewhere == Holds(d.page, k) \/ Holds(d.flat, k) \/ Truthy(d.root[k])
        IN  ret[1].ok <=> somewhere

(***************************************************************************)
(* C18, as stated: for a document that has neither a '<pageName>Page' key  *)
(* nor a '<pageName>' key but has elementKey directly at the document      *)
(* root, getLocator(pageName, elementKey) succeeds and returns the         *)
(* root-level value.                                                       *)
(***************************************************************************)
C18_RootLevelFallback ==
    (/\ ret # <<>>
     /\ args.doc.page = <<>>
     /\ args.doc.flat = <<>>
     /\ args.doc.root[args.key] # <<>>)
        => (ret[1].ok /\ ret[1].sel = args.doc.root[args.key][1])

(***************************************************************************)
(* C18, amended: for a document that has neither a '<pageName>Page' key    *)
(* nor a '<pageName>' key but has elementKey directly at the document      *)
(* root with a non-empty value, getLocator(pageName, elementKey) succeeds  *)
(* and returns the root-level value.                                       *)
(***************************************************************************)
C18_RootLevelFallbackNonEmpty ==
    (/\ ret # <<>>
     /\ args.doc.page = <<>>
     /\ args.doc.flat = <<>>
     /\ Truthy(args.doc.root[args.key]))
        => (ret[1].ok /\ ret[1].sel = args.doc.root[args.key][1])

\* C18's case: no page namespace of either form, the key at the root
C18_Witness ==
    /\ ret # <<>>
    /\ args.doc.page = <<>>
    /\ args.doc.flat = <<>>
    /\ args.key = "k2"
    /\ args.doc.root["k2"] = << <<"#", "R">> >>
    /\ ret[1].ok
    /\ ret[1].sel = <<"#", "R">>

\* the number of the three namespaces that hold a usable selector for key k
HoldCount(d, k) ==
    (IF Holds(d.page, k) THEN 1 ELSE 0) + (IF Holds(d.flat, k) THEN 1 ELSE 0)
        + (IF Truthy(d.root[k]) THEN 1 ELSE 0)

\* the selector the stated order of preference picks for key k
Preferred(d, k) ==
    IF Holds(d.page, k) THEN d.page[1][k][1]
    ELSE IF Holds(d.flat, k) THEN d.flat[1][k][1]
    ELSE d.root[k][1]

(***************************************************************************)
(* C22: when elementKey is present in more than one of the namespaces,     *)
(* getLocator returns the value under document[pageName + 'Page'] in       *)
(* preference to the one under document[pageName], which is returned in    *)
(* preference to the one at the document root.                             *)
(***************************************************************************)
C22_NamespacePrecedence ==
    (ret # <<>> /\ HoldCount(args.doc, args.key) >= 2) =>
        (ret[1].ok /\ ret[1].sel = Preferred(args.doc, args.key))

(***************************************************************************)
(* C9: getLocator for a key absent from the loaded document fails with an  *)
(* error of kind ELEMENT_NOT_FOUND whose message is exactly                *)
(* 'Locator not found: <pageName>.<elementKey>'.                           *)
(***************************************************************************)
C9_NotFoundIsElementNotFound ==
    (ret # <<>> /\ ~ret[1].ok) =>
        /\ ret[1].err.message = <<"Locator not found: ", args.page, ".", args.key>>
        /\ ret[1].err.type = <<ErrorTypes.ELEMENT_NOT_FOUND>>

(***************************************************************************)
(* Selector classification (resolveSelector).  A selector is a sequence of *)
(* characters; the inputs are the concatenations of up to MaxChunks of     *)
(* the chunks below.                                                       *)
(***************************************************************************)
MaxChunks == 3

XPathPrefix == <<"x", "p", "a", "t", "h", "=">>
TextPrefix  == <<"t", "e", "x", "t", "=">>

Chunks == {XPathPrefix, TextPrefix, <<"/", "/", "a">>, <<"#", "b">>,
           <<"x", "p", "a", "t", "h">>, <<"t", "e", "x", "t">>, <<"=">>}

RECURSIVE Concat(_)
Concat(cs) == IF cs = <<>> THEN <<>> ELSE Head(cs) \o Concat(Tail(cs))

Selectors == {Concat(cs) : cs \in UNION {[1..n -> Chunks] : n \in 0..MaxChunks}}

\* pat occurs in s at position i (1-based)
OccursAt(s, pat, i) ==
    /\ i >= 1
    /\ i + Len(pat) - 1 <= Len(s)
    /\ \A j \in 1..Len(pat) : s[i + j - 1] = pat[j]

\* String.prototype.startsWith
startsWith(s, pat) == OccursAt(s, pat, 1)

\* String.prototype.includes
includes(s, pat) == \E i \in 1..(Len(s) + 1) : OccursAt(s, pat, i)

\* String.prototype.replace with a string pattern: the first occurrence only
replace(s, pat, rep) ==
    IF ~includes(s, pat) THEN s
    ELSE LET i == CHOOSE n \in 1..(Len(s) + 1) :
                      /\ OccursAt(s, pat, n)
                      /\ \A m \in 1..(n - 1) : ~OccursAt(s, pat, m)
         IN  SubSeq(s, 1, i - 1) \o rep \o SubSeq(s, i + Len(pat), Len(s))

\* a slip: the prefix test replaced by a containment test
resolveSelector_includes(selector) ==
    IF includes(selector, XPathPrefix)
    THEN [query |-> "cy.xpath", payload |-> replace(selector, XPathPrefix, <<>>)]
    ELSE IF includes(selector, TextPrefix)
    THEN [query |-> "cy.contains", payload |-> replace(selector, TextPrefix, <<>>)]
    ELSE [query |-> "cy.get", payload |-> selector]

\* the query resolveSelector dispatches to, and what it passes
resolveSelector(selector) ==
    IF startsWith(selector, XPathPrefix)
    THEN [query |-> "cy.xpath", payload |-> replace(selector, XPathPrefix, <<>>)]
    ELSE IF startsWith(selector, TextPrefix)
    THEN [query |-> "cy.contains", payload |-> replace(selector, TextPrefix, <<>>)]
    ELSE [query |-> "cy.get", payload |-> selector]

InitSelector ==
    /\ OthersIdle
    /\ args \in [selector : Selectors]
    /\ ret = <<>>
    /\ LocatorIdle
    /\ RetryIdle
    /\ EnvelopeIdle

ApplyResolveSelector ==
    /\ ret = <<>>
    /\ ret' = <<resolveSelector(args.selector)>>
    /\ UNCHANGED <<args, notP>>

NextSelector == ApplyResolveSelector

SpecSelector == InitSelector /\ [][NextSelector]_vars

\* s without its first n characters
Drop(s, n) == IF Len(s) < n THEN <<>> ELSE SubSeq(s, n + 1, Len(s))

\* the first n characters of s
Take(s, n) == IF Len(s) < n THEN s ELSE SubSeq(s, 1, n)

(***************************************************************************)
(* C8: selector classification is total and prefix-based: a string         *)
(* starting with 'xpath=' goes to the XPath query with the string minus    *)
(* that leading prefix, a string starting with 'text=' goes to the         *)
(* text-contains query with the string minus that prefix, and every other  *)
(* string goes to the CSS query unchanged.                                 *)
(***************************************************************************)
C8_ClassifyByPrefix ==
    ret # <<>> =>
        LET s == args.selector
            r == ret[1]
        IN  IF Take(s, 6) = XPathPrefix
            THEN r = [query |-> "cy.xpath", payload |-> Drop(s, 6)]
            ELSE IF Take(s, 5) = TextPrefix
            THEN r = [query |-> "cy.contains", payload |-> Drop(s, 5)]
            ELSE r = [query |-> "cy.get", payload |-> s]

\* C8's case: a prefixed selector whose payload contains the prefix again
C8_Witness ==
    /\ ret # <<>>
    /\ args.selector = XPathPrefix \o TextPrefix \o XPathPrefix
    /\ ret[1].query = "cy.xpath"

(***************************************************************************)
(* Existence probes.  A page state says which CSS selectors match an       *)
(* element, which XPath expressions have a first match, and what the body  *)
(* text is.  jQuery's find throws a syntax error on a string that is not   *)
(* a CSS selector; within the alphabet used here those are the strings     *)
(* holding '=' or '/'.                                                     *)
(***************************************************************************)
CssA == <<"#", "a">>
CssB == <<"#", "b">>
XpA  == <<"/", "/", "a">>
XpB  == <<"/", "/", "b">>
TxHi == <<"H", "i">>
TxNo == <<"N", "o">>

ProbeSelectors == {CssA, CssB, XPathPrefix \o XpA, XPathPrefix \o XpB,
                   TextPrefix \o TxHi, TextPrefix \o TxNo}

PageStates == [css : SUBSET {CssA, CssB},
               xpath : SUBSET {XpA, XpB},
               text : {<<>>, TxHi, <<"O">> \o TxHi \o <<"!">>}]

SyntaxError(selector) ==
    [name |-> "Error",
     message |-> <<"Syntax error, unrecognized expression: ">> \o selector,
     type |-> <<>>, details |-> <<>>]

\* $body.find(selector).length > 0
bodyFind(page, selector) ==
    IF includes(selector, <<"=">>) \/ includes(selector, <<"/">>)
    THEN [threw |-> <<SyntaxError(selector)>>, value |-> FALSE]
    ELSE [threw |-> <<>>, value |-> selector \in page.css]

\* the callbacks of elementExists on the resolved selector
elementExists(selector, page) ==
    IF startsWith(selector, XPathPrefix) \/ startsWith(selector, TextPrefix)
    THEN IF startsWith(selector, XPathPrefix)
         THEN \* doc.evaluate(xpath, ...).singleNodeValue !== null
              [threw |-> <<>>,
               value |-> replace(selector, XPathPrefix, <<>>) \in page.xpath]
         ELSE \* $body.text().includes(text)
              [threw |-> <<>>,
               value |-> includes(page.text, replace(selector, TextPrefix, <<>>))]
    ELSE bodyFind(page, selector)

\* BasePage.exists: the callback on the resolved selector
exists(selector, page) == bodyFind(page, selector)

\* the test `$body.find(selector).length > 0` of safeClick
safeClickProbe(selector, page) == bodyFind(page, selector)

\* the test `$body.find(selector).length > 0` of safeType
safeTypeProbe(selector, page) == bodyFind(page, selector)

NoProbes == [elementExists |-> <<>>, exists |-> <<>>, safeClick |-> <<>>,
             safeType |-> <<>>]

InitProbe ==
    /\ OthersIdle
    /\ args \in [selector : ProbeSelectors, page : PageStates]
    /\ ret = NoProbes
    /\ LocatorIdle
    /\ RetryIdle
    /\ EnvelopeIdle

ApplyElementExists ==
    /\ ret.elementExists = <<>>
    /\ ret' = [ret EXCEPT !.elementExists = <<elementExists(args.selector, args.page)>>]
    /\ UNCHANGED <<args, notP>>

ApplyExists ==
    /\ ret.exists = <<>>
    /\ ret' = [ret EXCEPT !.exists = <<exists(args.selector, args.page)>>]
    /\ UNCHANGED <<args, notP>>

ApplySafeClickProbe ==
    /\ ret.safeClick = <<>>
    /\ ret' = [ret EXCEPT !.safeClick = <<safeClickProbe(args.selector, args.page)>>]
    /\ UNCHANGED <<args, notP>>

ApplySafeTypeProbe ==
    /\ ret.safeType = <<>>
    /\ ret' = [ret EXCEPT !.safeType = <<safeTypeProbe(args.selector, args.page)>>]
    /\ UNCHANGED <<args, notP>>

NextProbe ==
    \/ ApplyElementExists
    \/ ApplyExists
    \/ ApplySafeClickProbe
    \/ ApplySafeTypeProbe

SpecProbe == InitProbe /\ [][NextProbe]_vars

\* a probe's outcome counts the element as present
Present(outcome) == outcome.threw = <<>> /\ outcome.value

\* presence by selector kind: XPath first match, text substring, CSS find
PresentByKind(selector, page) ==
    IF Take(selector, 6) = XPathPrefix THEN Drop(selector, 6) \in page.xpath
    ELSE IF Take(selector, 5) = TextPrefix
    THEN \E i \in 1..(Len(page.text) + 1) :
            OccursAt(page.text, Drop(selector, 5), i)
    ELSE selector \in page.css

(***************************************************************************)
(* C11: the existence decision of safeClick and safeType is the one        *)
(* elementExists makes: for every selector string (CSS, 'xpath=' or        *)
(* 'text=' prefixed) and every page state, they treat the element as       *)
(* present exactly when elementExists reports it present.                  *)
(***************************************************************************)
C11_SafeProbeAgreesWithElementExists ==
    /\ (ret.elementExists # <<>> /\ ret.safeClick # <<>>) =>
          (Present(ret.safeClick[1]) <=> Present(ret.elementExists[1]))
    /\ (ret.elementExists # <<>> /\ ret.safeType # <<>>) =>
          (Present(ret.safeType[1]) <=> Present(ret.elementExists[1]))

(***************************************************************************)
(* C12: elementExists and BasePage.exists both dispatch on the selector    *)
(* kind: an 'xpath=' selector is present iff the XPath has a first match,  *)
(* a 'text=' selector iff the literal is a substring of the body text,     *)
(* any other selector iff a CSS find on the body returns an element.       *)
(***************************************************************************)
C12_ProbesDispatchOnKind ==
    /\ ret.elementExists # <<>> =>
          /\ ret.elementExists[1].threw = <<>>
          /\ ret.elementExists[1].value <=> PresentByKind(args.selector, args.page)
    /\ ret.exists # <<>> =>
          /\ ret.exists[1].threw = <<>>
          /\ ret.exists[1].value <=> PresentByKind(args.selector, args.page)

(***************************************************************************)
(* validateApiResponse.  A response body maps a property to <<>> (no own   *)
(* property) or <<value>>.  expectations.status / .properties / .values    *)
(* are <<>> when not given; .values lists its entries in Object.entries    *)
(* order.  HTTP statuses are written as strings.                           *)
(***************************************************************************)
MaxProps == 2       \* length of expectations.properties

BodyKeys == {"id", "name"}
BodyVals == {"X", "Y"}
Statuses == {"200", "404"}

Bodies == [BodyKeys -> {<<>>} \cup {<<v>> : v \in BodyVals}]

Responses == [status : Statuses, body : Bodies]

PropLists == UNION {[1..n -> BodyKeys] : n \in 0..MaxProps}

\* the entries of a values object: distinct keys, in insertion order
ValueEntries ==
    {<<>>} \cup {<< <<k, v>> >> : k \in BodyKeys, v \in BodyVals}
           \cup {e \in {<< <<ka, va>>, <<kb, vb>> >> :
                            ka \in BodyKeys, kb \in BodyKeys,
                            va \in BodyVals, vb \in BodyVals} : e[1][1] # e[2][1]}

Expectations ==
    [status : {<<>>} \cup {<<st>> : st \in Statuses},
     properties : {<<>>} \cup {<<ps>> : ps \in PropLists},
     values : {<<>>} \cup {<<vs>> : vs \in ValueEntries}]

\* String(response.body[key]) in the message
Shown(entry) == IF Len(entry) = 0 THEN "undefined" ELSE entry[1]

StatusErrors(response, expectations) ==
    IF Len(expectations.status) > 0 /\ response.status # expectations.status[1]
    THEN << <<"Expected status ", expectations.status[1], ", got ", response.status>> >>
    ELSE <<>>

RECURSIVE PropertyErrors(_, _)
PropertyErrors(body, props) ==
    IF props = <<>> THEN <<>>
    ELSE (IF Len(body[Head(props)]) = 0
          THEN << <<"Missing property: ", Head(props)>> >>
          ELSE <<>>) \o PropertyErrors(body, Tail(props))

RECURSIVE ValueErrors(_, _)
ValueErrors(body, entries) ==
    IF entries = <<>> THEN <<>>
    ELSE LET key == Head(entries)[1]
             value == Head(entries)[2]
         IN  (IF body[key] # <<value>>
              THEN << <<"Expected ", key, " to be ", value, ", got ", Shown(body[key])>> >>
              ELSE <<>>) \o ValueErrors(body, Tail(entries))

\* errors.join('; ')
RECURSIVE Join(_)
Join(errors) ==
    IF Len(errors) = 0 THEN <<>>
    ELSE IF Len(errors) = 1 THEN Head(errors)
    ELSE Head(errors) \o <<"; ">> \o Join(Tail(errors))

\* the outcome of validateApiResponse for the collected errors
Validated(response, errors) ==
    IF Len(errors) > 0
    THEN [ok |-> FALSE,
          err |-> TestError(<<"API validation failed: ">> \o Join(errors),
                            ErrorTypes.API_ERROR,
                            <<[response |-> response.body, errors |-> errors]>>)]
    ELSE [ok |-> TRUE, err |-> NoError]

\* a slip: returning at the first kind of mismatch instead of collecting all
validateApiResponse_failFast(response, expectations) ==
    LET se == StatusErrors(response, expectations)
        pe == IF Len(expectations.properties) > 0
              THEN PropertyErrors(response.body, expectations.properties[1])
              ELSE <<>>
        ve == IF Len(expectations.values) > 0
              THEN ValueErrors(response.body, expectations.values[1])
              ELSE <<>>
    IN  Validated(response,
                  IF Len(se) > 0 THEN se ELSE IF Len(pe) > 0 THEN pe ELSE ve)

validateApiResponse(response, expectations) ==
    LET se == StatusErrors(response, expectations)
        pe == IF Len(expectations.properties) > 0
              THEN PropertyErrors(response.body, expectations.properties[1])
              ELSE <<>>
        ve == IF Len(expectations.values) > 0
              THEN ValueErrors(response.body, expectations.values[1])
              ELSE <<>>
    IN  Validated(response, se \o pe \o ve)

InitValidate ==
    /\ OthersIdle
    /\ args \in [response : Responses, expectations : Expectations]
    /\ ret = <<>>
    /\ LocatorIdle
    /\ RetryIdle
    /\ EnvelopeIdle

ApplyValidateApiResponse ==
    /\ ret = <<>>
    /\ ret' = <<validateApiResponse(args.response, args.expectations)>>
    /\ UNCHANGED <<args, notP>>

NextValidate == ApplyValidateApiResponse

SpecValidate == InitValidate /\ [][NextValidate]_vars

\* the expectations the response violates, as positions in the expectation
StatusMismatch(a) ==
    Len(a.expectations.status) > 0 /\ a.expectations.status[1] # a.response.status

MissingProps(a) ==
    IF Len(a.expectations.properties) = 0 THEN {}
    ELSE {i \in 1..Len(a.expectations.properties[1]) :
             a.response.body[a.expectations.properties[1][i]] = <<>>}

DifferingValues(a) ==
    IF Len(a.expectations.values) = 0 THEN {}
    ELSE {i \in 1..Len(a.expectations.values[1]) :
             a.response.body[a.expectations.values[1][i][1]]
                 # <<a.expectations.values[1][i][2]>>}

(***************************************************************************)
(* C6: validateApiResponse raises iff at least one expectation is          *)
(* violated, and then raises one API_ERROR whose details.errors has        *)
(* exactly one entry for the status mismatch (if any), one per expected    *)
(* property missing from the body and one per expected value that          *)
(* differs; it never stops at the first mismatch.                          *)
(***************************************************************************)
C6_AllViolationsReported ==
    ret # <<>> =>
        LET a == args
            n == (IF StatusMismatch(a) THEN 1 ELSE 0)
                   + Cardinality(MissingProps(a)) + Cardinality(DifferingValues(a))
        IN  /\ ret[1].ok <=> n = 0
            /\ ~ret[1].ok =>
                 LET errors == ret[1].err.details[1].errors
                 IN  /\ ret[1].err.type = <<ErrorTypes.API_ERROR>>
                     /\ Len(errors) = n
                     /\ StatusMismatch(a) <=>
                          \E i \in 1..Len(errors) : errors[i][1] = "Expected status "
                     /\ \A i \in MissingProps(a) :
                          \E j \in 1..Len(errors) :
                             errors[j] = <<"Missing property: ",
                                           a.expectations.properties[1][i]>>
                     /\ \A i \in DifferingValues(a) :
                          \E j \in 1..Len(errors) :
                             /\ errors[j][1] = "Expected "
                             /\ errors[j][2] = a.expectations.values[1][i][1]
                             /\ errors[j][4] = a.expectations.values[1][i][2]

\* C6's case: status 404 for 200, no id, name 'Y' for 'X': three violations
C6_Witness ==
    /\ ret # <<>>
    /\ args.response = [status |-> "404",
                        body |-> [k \in BodyKeys |-> IF k = "name" THEN <<"Y">> ELSE <<>>]]
    /\ args.expectations = [status |-> <<"200">>, properties |-> << <<"id">> >>,
                            values |-> << << <<"name", "X">> >> >>]
    /\ ~ret[1].ok
    /\ Len(ret[1].err.details[1].errors) = 3

(***************************************************************************)
(* retry(fn, maxRetries, delay).  fnPlan[i] says what the i-th invocation  *)
(* of fn does: return a promise that resolves, return a promise that       *)
(* rejects, throw before returning, or return a Cypress chainable (which   *)
(* has no catch method).                                                   *)
(***************************************************************************)
MaxRetries == 3     \* largest maxRetries argument

FnKinds == {"resolve", "reject", "throw", "chainable"}
Delays  == {100, 1000}

\* the error the i-th invocation of fn raises: a different value each time
ErrAt(i) ==
    IF i % 2 = 1
    THEN TestError(<<"attempt ", Digit[i + 1], " timed out">>, ErrorTypes.TIMEOUT,
                   <<[attempt |-> i]>>)
    ELSE Error(<<"attempt ", Digit[i + 1], " failed">>)

\* the value the i-th invocation resolves with
ValueAt(i) == [value |-> i]

TypeError(msg) == [name |-> "TypeError", message |-> msg, type |-> <<>>, details |-> <<>>]

\* a slip: keeping the first error instead of the latest one
retryCatch_firstError(last, error, left) ==
    LET kept == IF Len(last) > 0 THEN last ELSE <<error>>
    IN  [lastError |-> kept,
         again |-> left > 0,
         thrown |-> IF left > 0 THEN <<>> ELSE kept]

\* the .catch handler of attempt: lastError = error; retry or throw lastError
retryCatch(last, error, left) ==
    [lastError |-> <<error>>,
     again |-> left > 0,
     thrown |-> IF left > 0 THEN <<>> ELSE <<error>>]

InitRetry ==
    /\ OthersIdle
    /\ fnPlan \in [1..(MaxRetries + 1) -> FnKinds]
    /\ maxRetries \in 0..MaxRetries
    /\ delay \in Delays
    /\ retriesLeft = 0
    /\ lastError = <<>>
    /\ calls = 0
    /\ waits = <<>>
    /\ waitsDone = 0
    /\ doneAtCall = <<>>
    /\ rState = "pending"
    /\ rOut = <<>>
    /\ args = <<>>
    /\ ret = <<>>
    /\ LocatorIdle
    /\ EnvelopeIdle

\* retry(fn, maxRetries, delay): return attempt(maxRetries)
retry ==
    /\ rState = "pending"
    /\ rState' = "attempting"
    /\ retriesLeft' = maxRetries
    /\ doneAtCall' = <<waitsDone>>
    /\ UNCHANGED <<fnPlan, maxRetries, delay, lastError, calls, waits, waitsDone,
                   rOut>>
    /\ UNCHANGED notR

\* attempt(retriesLeft): fn().catch(handler)
attempt ==
    /\ rState = "attempting"
    /\ calls' = calls + 1
    /\ LET i == calls + 1
           kind == fnPlan[i]
       IN  CASE kind = "resolve" ->
                  /\ rState' = "succeeded"
                  /\ rOut' = <<ValueAt(i)>>
                  /\ UNCHANGED <<retriesLeft, lastError, waits, doneAtCall>>
             [] kind = "throw" ->
                  \* fn() throws before .catch is attached
                  /\ rState' = "failed"
                  /\ rOut' = <<ErrAt(i)>>
                  /\ UNCHANGED <<retriesLeft, lastError, waits, doneAtCall>>
             [] kind = "chainable" ->
                  \* fn().catch is undefined on a Cypress chainable
                  /\ rState' = "failed"
                  /\ rOut' = <<TypeError(<<"fn(...).catch is not a function">>)>>
                  /\ UNCHANGED <<retriesLeft, lastError, waits, doneAtCall>>
             [] kind = "reject" ->
                  LET h == retryCatch(lastError, ErrAt(i), retriesLeft)
                  IN  /\ lastError' = h.lastError
                      /\ IF h.again
                         THEN \* cy.wait(delay); return attempt(retriesLeft - 1):
                              \* the wait is queued and fn is invoked at once
                              /\ waits' = Append(waits, delay)
                              /\ retriesLeft' = retriesLeft - 1
                              /\ doneAtCall' = Append(doneAtCall, waitsDone)
                              /\ UNCHANGED <<rState, rOut>>
                         ELSE /\ rState' = "failed"
                              /\ rOut' = h.thrown
                              /\ UNCHANGED <<retriesLeft, waits, doneAtCall>>
    /\ UNCHANGED <<fnPlan, maxRetries, delay, waitsDone>>
    /\ UNCHANGED notR

\* a queued cy.wait(delay) runs; the queue advances while fn's promise is
\* pending and after retry has succeeded
RunWait ==
    /\ rState \in {"attempting", "succeeded"}
    /\ waitsDone < Len(waits)
    /\ waitsDone' = waitsDone + 1
    /\ UNCHANGED <<fnPlan, maxRetries, delay, retriesLeft, lastError, calls, waits,
                   doneAtCall, rState, rOut>>
    /\ UNCHANGED notR

NextRetry == retry \/ attempt \/ RunWait

SpecRetry == InitRetry /\ [][NextRetry]_vars

Terminal == rState \in {"succeeded", "failed"}

Fails(kind) == kind \in {"reject", "throw"}

\* fn fails on its first k-1 invocations and succeeds on the k-th
SucceedsAt(k) ==
    /\ k <= maxRetries + 1
    /\ fnPlan[k] = "resolve"
    /\ \A j \in 1..(k - 1) : Fails(fnPlan[j])

\* fn fails on every invocation retry may make
AlwaysFails == \A j \in 1..(maxRetries + 1) : Fails(fnPlan[j])

(***************************************************************************)
(* C4: if fn fails on its first k-1 invocations and succeeds on the k-th   *)
(* (k <= maxRetries+1), retry returns that result after exactly k          *)
(* invocations and k-1 delays; if fn fails on every invocation, fn is      *)
(* invoked exactly maxRetries+1 times with exactly maxRetries delays and   *)
(* then the failure is propagated.                                         *)
(***************************************************************************)
C4_AttemptAndDelayCounts ==
    Terminal =>
        /\ \A k \in 1..(MaxRetries + 1) :
              SucceedsAt(k) =>
                 /\ rState = "succeeded"
                 /\ rOut = <<ValueAt(k)>>
                 /\ calls = k
                 /\ Len(waits) = k - 1
        /\ AlwaysFails =>
              /\ rState = "failed"
              /\ calls = maxRetries + 1
              /\ Len(waits) = maxRetries

(***************************************************************************)
(* C5: when every attempt of a retried action fails, the error retry       *)
(* propagates is exactly the error raised by the final attempt: the same   *)
(* value (message, kind and details), not wrapped and not the error of an  *)
(* earlier attempt.                                                        *)
(***************************************************************************)
C5_PropagatesFinalError ==
    (rState = "failed" /\ \A j \in 1..calls : Fails(fnPlan[j]))
        => rOut = <<ErrAt(calls)>>

\* C5's case: several attempts rejected, the retries exhausted
C5_Witness ==
    /\ rState = "failed"
    /\ maxRetries >= 2
    /\ calls = maxRetries + 1
    /\ \A j \in 1..calls : fnPlan[j] = "reject"
    /\ rOut = <<ErrAt(calls)>>

(***************************************************************************)
(* C14: every retry sequence started with a finite bound reaches           *)
(* Succeeded or Failed after finitely many attempts whatever the action    *)
(* does, makes no further attempt or delay once terminal, and reaches      *)
(* Failed only after the retry bound has been exhausted.                   *)
(***************************************************************************)
C14_FailedOnlyAfterExhaustion ==
    /\ calls <= maxRetries + 1
    /\ Len(waits) <= maxRetries
    /\ rState = "failed" => (calls = maxRetries + 1 /\ Len(waits) = maxRetries)

(***************************************************************************)
(* The error envelope on the command queue: safeClick, handleError and     *)
(* validateApiResponse called from a test body.  A thrown error fails the  *)
(* test: Cypress drops the commands still queued.                          *)
(***************************************************************************)
MaxCalls == 2       \* envelope calls a test body makes

CssSelectors == {"#a", "#b"}
Timeouts == {<<>>, <<5000>>}                \* options.timeout, <<>> = not given
Forces   == {<<>>, <<TRUE>>, <<FALSE>>}     \* options.force, <<>> = not given

DefaultTimeout == 10000

HandledErrors == {Error(<<"boom">>),
                  TestError(<<"late">>, ErrorTypes.TIMEOUT, <<>>)}

ECmd(op, selector, timeout, force) ==
    [op |-> op, selector |-> selector, timeout |-> timeout, force |-> force]

Event(ev, selector, found, timeout, force) ==
    [ev |-> ev, selector |-> selector, found |-> found, timeout |-> timeout,
     force |-> force]

\* const { timeout = 10000, force = false } = options
OrDefault(opt, def) == IF Len(opt) > 0 THEN opt[1] ELSE def

\* a slip: the click issued without the caller's force flag
safeClick_noForce(selector, timeout, force, d) ==
    IF selector \in d
    THEN [ok |-> TRUE,
          cmds |-> <<ECmd("click", selector, <<OrDefault(timeout, DefaultTimeout)>>,
                          <<FALSE>>)>>,
          err |-> NoError]
    ELSE [ok |-> FALSE, cmds |-> <<>>,
          err |-> TestError(<<"Element not found: ", selector>>,
                            ErrorTypes.ELEMENT_NOT_FOUND,
                            <<[selector |-> selector]>>)]

\* safeClick's callback on the body: $body.find(selector).length > 0 ? click : throw
safeClick(selector, timeout, force, d) ==
    IF selector \in d
    THEN [ok |-> TRUE,
          cmds |-> <<ECmd("click", selector, <<OrDefault(timeout, DefaultTimeout)>>,
                          <<OrDefault(force, FALSE)>>)>>,
          err |-> NoError]
    ELSE [ok |-> FALSE, cmds |-> <<>>,
          err |-> TestError(<<"Element not found: ", selector>>,
                            ErrorTypes.ELEMENT_NOT_FOUND,
                            <<[selector |-> selector]>>)]

\* the commands handleError puts on the queue: six log tasks and a screenshot
handleErrorCmds ==
    [i \in 1..7 |-> IF i <= 6 THEN ECmd("log", "", <<>>, <<>>)
                    ELSE ECmd("screenshot", "", <<>>, <<>>)]

\* a slip: the error's own type ignored
errorInfo_unknown(error) ==
    [message |-> error.message, type |-> ErrorTypes.UNKNOWN]

\* const errorInfo = { message: error.message, type: error.type || UNKNOWN, ... }
errorInfo(error) ==
    [message |-> error.message,
     type |-> IF Truthy(error.type) THEN error.type[1] ELSE ErrorTypes.UNKNOWN]

\* handleError(error, context, shouldThrow): what it logs, the commands it
\* issues, and what it throws (<<>>: it returns normally)
handleError(error, shouldThrow) ==
    [error |-> error,
     shouldThrow |-> shouldThrow,
     info |-> errorInfo(error),
     issued |-> handleErrorCmds,
     thrown |-> IF shouldThrow THEN <<error>> ELSE <<>>]

\* what Cypress fails a cy.screenshot with when the capture does not succeed
ScreenshotError ==
    [name |-> "CypressError", message |-> <<"cy.screenshot() timed out">>,
     type |-> <<>>, details |-> <<>>]

\* the texts a test types: secrets are typed with { log: false }
Secrets   == {"hunter2", "s3cret"}
OpenTexts == {"hello"}
Clears    == {<<>>, <<FALSE>>}              \* options.clear, <<>> = not given

TCmd(op, selector, timeout, text, clear, log) ==
    [op |-> op, selector |-> selector, timeout |-> timeout, text |-> text,
     clear |-> clear, log |-> log]

\* safeType's callback on the body: found ? get, clear if asked, type : throw.
\* Only timeout and clear are taken from options; type gets no options.
safeType(selector, text, timeout, clear, log, d) ==
    IF selector \in d
    THEN [ok |-> TRUE,
          cmds |-> (IF OrDefault(clear, TRUE)
                    THEN <<TCmd("clear", selector,
                                <<OrDefault(timeout, DefaultTimeout)>>, "", <<>>, <<>>)>>
                    ELSE <<>>)
                   \o <<TCmd("type", selector,
                              <<OrDefault(timeout, DefaultTimeout)>>, text, <<>>, <<>>)>>,
          err |-> NoError]
    ELSE [ok |-> FALSE, cmds |-> <<>>,
          err |-> TestError(<<"Element not found: ", selector>>,
                            ErrorTypes.ELEMENT_NOT_FOUND,
                            <<[selector |-> selector]>>)]

\* an entry of the Cypress command log
LogEntry(name, message) == [name |-> name, message |-> message]

InitEnvelope ==
    /\ OthersIdle
    /\ dom \in SUBSET CssSelectors
    /\ events = <<>>
    /\ failure = <<>>
    /\ logsRun = 0
    /\ shotsRun = 0
    /\ handled = <<>>
    /\ cmdLog = <<>>
    /\ args = <<>>
    /\ ret = <<>>
    /\ LocatorIdle
    /\ RetryIdle

\* the envelope calls the running test body has made so far
BodyCalls ==
    Len(handled) + Cardinality({i \in 1..Len(queue) :
                                   queue[i].op \in {"safeClick", "safeType"}})

\* a test body calls safeClick(selector, options): cy.get('body').then(...)
CallSafeClick(selector, timeout, force) ==
    /\ phase = "body"
    /\ BodyCalls < MaxCalls
    /\ queue' = Append(queue, ECmd("safeClick", selector, timeout, force))
    /\ UNCHANGED <<phase, evars, notE>>

\* a test body calls handleError(error, context, shouldThrow)
CallHandleError(error, shouldThrow) ==
    /\ phase = "body"
    /\ BodyCalls < MaxCalls
    /\ LET h == handleError(error, shouldThrow)
       IN  /\ handled' = Append(handled, h)
           /\ IF Len(h.thrown) > 0
              THEN \* throw error: the test function ends, nothing queued will run
                   /\ failure' = h.thrown
                   /\ queue' = <<>>
                   /\ phase' = "failed"
              ELSE /\ queue' = queue \o h.issued
                   /\ UNCHANGED <<failure, phase>>
    /\ UNCHANGED <<dom, events, logsRun, shotsRun, cmdLog, notE>>

\* a test body calls validateApiResponse(response, expectations)
CallValidateApiResponse(response, expectations) ==
    /\ phase = "body"
    /\ BodyCalls < MaxCalls
    /\ LET v == validateApiResponse(response, expectations)
       IN  IF v.ok
           THEN UNCHANGED <<failure, queue, phase>>
           ELSE /\ failure' = <<v.err>>
                /\ queue' = <<>>
                /\ phase' = "failed"
    /\ UNCHANGED <<dom, events, logsRun, shotsRun, handled, cmdLog, notE>>

\* the test function returns; Cypress starts running the queued commands
RunEnvelopeBody ==
    /\ phase = "body"
    /\ phase' = "run"
    /\ UNCHANGED <<queue, evars, notE>>

\* cy.get('body').then(($body) => ...) of safeClick runs
RunSafeClick ==
    /\ phase = "run"
    /\ Len(queue) > 0
    /\ Head(queue).op = "safeClick"
    /\ LET c == Head(queue)
           r == safeClick(c.selector, c.timeout, c.force, dom)
           probe == Event("probe", c.selector, r.ok, c.timeout, c.force)
       IN  IF r.ok
           THEN /\ queue' = r.cmds \o Tail(queue)
                /\ events' = events \o <<probe>> \o
                      [i \in 1..Len(r.cmds) |->
                          Event("issue", r.cmds[i].selector, TRUE,
                                r.cmds[i].timeout, r.cmds[i].force)]
                /\ UNCHANGED <<failure, phase>>
           ELSE /\ queue' = <<>>
                /\ events' = Append(events, probe)
                /\ failure' = <<r.err>>
                /\ phase' = "failed"
    /\ UNCHANGED <<dom, logsRun, shotsRun, handled, cmdLog, notE>>

\* cy.get(selector, { timeout }).click({ force }) runs
RunClick ==
    /\ phase = "run"
    /\ Len(queue) > 0
    /\ Head(queue).op = "click"
    /\ LET c == Head(queue)
       IN  events' = Append(events, Event("click", c.selector, TRUE, c.timeout, c.force))
    /\ queue' = Tail(queue)
    /\ UNCHANGED <<phase, dom, failure, logsRun, shotsRun, handled, cmdLog, notE>>

\* cy.task('log', ...) runs
RunLog ==
    /\ phase = "run"
    /\ Len(queue) > 0
    /\ Head(queue).op = "log"
    /\ logsRun' = logsRun + 1
    /\ queue' = Tail(queue)
    /\ UNCHANGED <<phase, dom, events, failure, shotsRun, handled, cmdLog, notE>>

\* cy.screenshot(..., { capture: 'fullPage' }) runs
RunScreenshot ==
    /\ phase = "run"
    /\ Len(queue) > 0
    /\ Head(queue).op = "screenshot"
    /\ shotsRun' = shotsRun + 1
    /\ queue' = Tail(queue)
    /\ UNCHANGED <<phase, dom, events, failure, logsRun, handled, cmdLog, notE>>

\* cy.screenshot(...) runs and the capture fails: the command fails the test
RunScreenshotFails ==
    /\ phase = "run"
    /\ Len(queue) > 0
    /\ Head(queue).op = "screenshot"
    /\ failure' = <<ScreenshotError>>
    /\ queue' = <<>>
    /\ phase' = "failed"
    /\ UNCHANGED <<dom, events, logsRun, shotsRun, handled, cmdLog, notE>>

\* a test body calls safeType(selector, text, options): cy.get('body').then(...)
CallSafeType(selector, text, clear, log) ==
    /\ phase = "body"
    /\ BodyCalls < MaxCalls
    /\ queue' = Append(queue, TCmd("safeType", selector, <<>>, text, clear, log))
    /\ UNCHANGED <<phase, evars, notE>>

\* cy.get('body').then(($body) => ...) of safeType runs
RunSafeType ==
    /\ phase = "run"
    /\ Len(queue) > 0
    /\ Head(queue).op = "safeType"
    /\ LET c == Head(queue)
           r == safeType(c.selector, c.text, c.timeout, c.clear, c.log, dom)
       IN  IF r.ok
           THEN /\ queue' = r.cmds \o Tail(queue)
                /\ UNCHANGED <<failure, phase>>
           ELSE /\ queue' = <<>>
                /\ failure' = <<r.err>>
                /\ phase' = "failed"
    /\ UNCHANGED <<dom, events, logsRun, shotsRun, handled, cmdLog, notE>>

\* element.clear() runs
RunClear ==
    /\ phase = "run"
    /\ Len(queue) > 0
    /\ Head(queue).op = "clear"
    /\ cmdLog' = Append(cmdLog, LogEntry("clear", ""))
    /\ queue' = Tail(queue)
    /\ UNCHANGED <<phase, dom, events, failure, logsRun, shotsRun, handled, notE>>

\* element.type(text) runs: Cypress shows the typed text in its command log
\* unless the command was given { log: false }
RunType ==
    /\ phase = "run"
    /\ Len(queue) > 0
    /\ Head(queue).op = "type"
    /\ LET c == Head(queue)
       IN  cmdLog' = IF OrDefault(c.log, TRUE)
                     THEN Append(cmdLog, LogEntry("type", c.text))
                     ELSE cmdLog
    /\ queue' = Tail(queue)
    /\ UNCHANGED <<phase, dom, events, failure, logsRun, shotsRun, handled, notE>>

\* the response and expectations the test bodies validate
BodyOf(name) == [k \in BodyKeys |-> IF k = "name" THEN <<name>> ELSE <<>>]

ExpectOk == [status |-> <<"200">>, properties |-> <<>>, values |-> <<>>]

NextEnvelope ==
    \/ \E sel \in CssSelectors, t \in Timeouts, f \in Forces : CallSafeClick(sel, t, f)
    \/ \E e \in HandledErrors, b \in BOOLEAN : CallHandleError(e, b)
    \/ \E st \in Statuses :
          CallValidateApiResponse([status |-> st, body |-> BodyOf("X")], ExpectOk)
    \/ RunEnvelopeBody
    \/ RunSafeClick
    \/ RunClick
    \/ RunLog
    \/ RunScreenshot
    \/ RunScreenshotFails
    \/ \E sel \in CssSelectors, c \in Clears :
          \/ \E text \in Secrets : CallSafeType(sel, text, c, <<FALSE>>)
          \/ \E text \in OpenTexts : CallSafeType(sel, text, c, <<>>)
    \/ RunSafeType
    \/ RunClear
    \/ RunType

SpecEnvelope == InitEnvelope /\ [][NextEnvelope]_vars

(***************************************************************************)
(* C7: every failure raised by the error envelope is preceded by the       *)
(* execution of a structured log entry and of a full-page screenshot: when *)
(* the error reaches the runner's failure channel, the log task and the    *)
(* screenshot command have already run.                                    *)
(***************************************************************************)
C7_LoggedAndShotBeforeFailure ==
    failure # <<>> => (logsRun > 0 /\ shotsRun > 0)

C13_ClassifyThenRethrowOrReturn ==
    \A i \in 1..Len(handled) :
        LET h == handled[i]
        IN  /\ h.info.type = (IF h.error.type # <<>> THEN h.error.type[1]
                              ELSE "UNKNOWN")
            /\ h.info.message = h.error.message
            /\ Len(h.issued) = 7
            /\ \A j \in 1..6 : h.issued[j].op = "log"
            /\ h.issued[7].op = "screenshot"
            /\ IF h.shouldThrow
               THEN /\ i = Len(handled)
                    /\ phase = "failed"
                    /\ failure = <<h.error>>
               ELSE /\ h.thrown = <<>>
                    /\ (i = Len(handled) /\ failure # <<>>) => failure[1] # h.error

\* C13's case: a typed error swallowed, then an untyped one re-raised
C13_Witness ==
    /\ Len(handled) = 2
    /\ ~handled[1].shouldThrow /\ handled[1].info.type = "TIMEOUT"
    /\ handled[2].shouldThrow /\ handled[2].info.type = "UNKNOWN"
    /\ failure = <<Error(<<"boom">>)>>

(***************************************************************************)
(* withErrorHandling(action, context, { shouldThrow, retries, retryDelay }).*)
(* fnPlan[i] says what the i-th invocation of action does: return          *)
(* normally, throw, or return a chainable whose command fails when it      *)
(* runs.  maxRetries holds retries, delay holds retryDelay and calls holds *)
(* attempts.                                                               *)
(***************************************************************************)
ActionKinds == {"return", "throw", "fail"}

InitWith ==
    /\ OthersIdle
    /\ fnPlan \in [1..(MaxRetries + 1) -> ActionKinds]
    /\ maxRetries \in 0..MaxRetries
    /\ delay \in Delays
    /\ args \in [shouldThrow : BOOLEAN]
    /\ retriesLeft = 0
    /\ lastError = <<>>
    /\ calls = 0
    /\ waits = <<>>
    /\ waitsDone = 0
    /\ doneAtCall = <<>>
    /\ rState = "pending"
    /\ rOut = <<>>
    /\ ret = <<>>
    /\ LocatorIdle
    /\ EnvelopeIdle

\* a slip: the bound counted as a number of invocations
shouldRetry_strict(attempts, retries) == attempts < retries

\* the catch block's test: if (attempts <= retries)
shouldRetry(attempts, retries) == attempts <= retries

\* withErrorHandling(...): let attempts = 0; return executeAction()
withErrorHandling ==
    /\ rState = "pending"
    /\ rState' = "executing"
    /\ doneAtCall' = <<waitsDone>>
    /\ UNCHANGED <<fnPlan, maxRetries, delay, retriesLeft, lastError, calls, waits,
                   waitsDone, rOut>>
    /\ UNCHANGED notR

\* executeAction: attempts++; try { return action() } catch (error) { ... }
executeAction ==
    /\ rState = "executing"
    /\ calls' = calls + 1
    /\ LET attempts == calls + 1
           kind == fnPlan[attempts]
       IN  CASE kind = "return" ->
                  /\ rState' = "succeeded"
                  /\ rOut' = <<ValueAt(attempts)>>
                  /\ UNCHANGED <<waits, doneAtCall, handled>>
             [] kind = "fail" ->
                  \* the chainable is returned; its failure is not an exception
                  \* of action(), so the catch block never sees it
                  /\ rState' = "failed"
                  /\ rOut' = <<ErrAt(attempts)>>
                  /\ UNCHANGED <<waits, doneAtCall, handled>>
             [] kind = "throw" ->
                  IF shouldRetry(attempts, maxRetries)
                  THEN \* cy.wait(retryDelay); return executeAction():
                       \* the wait is queued and action is invoked at once
                       /\ waits' = Append(waits, delay)
                       /\ doneAtCall' = Append(doneAtCall, waitsDone)
                       /\ UNCHANGED <<rState, rOut, handled>>
                  ELSE LET h == handleError(ErrAt(attempts), args.shouldThrow)
                       IN  /\ handled' = Append(handled, h)
                           /\ rState' = IF Len(h.thrown) > 0 THEN "failed"
                                        ELSE "swallowed"
                           /\ rOut' = h.thrown
                           /\ UNCHANGED <<waits, doneAtCall>>
    /\ UNCHANGED <<fnPlan, maxRetries, delay, retriesLeft, lastError, waitsDone>>
    /\ UNCHANGED <<lvars, pvars, dom, events, failure, logsRun, shotsRun, cmdLog,
                   ovars>>

\* a queued cy.wait(retryDelay) runs: the queue advances only once the
\* synchronous executeAction chain has returned without throwing
RunWaitWith ==
    /\ rState \in {"succeeded", "swallowed"}
    /\ waitsDone < Len(waits)
    /\ waitsDone' = waitsDone + 1
    /\ UNCHANGED <<fnPlan, maxRetries, delay, retriesLeft, lastError, calls, waits,
                   doneAtCall, rState, rOut>>
    /\ UNCHANGED notR

NextWith == withErrorHandling \/ executeAction \/ RunWaitWith

SpecWith == InitWith /\ [][NextWith]_vars

(***************************************************************************)
(* C15: in retry and in withErrorHandling, after a failed attempt that is  *)
(* going to be retried, the cy.wait of the configured delay has completed  *)
(* before the next invocation of the action begins: the i-th invocation    *)
(* starts with i-1 completed delays.                                       *)
(***************************************************************************)
C15_DelayCompletedBeforeNextAttempt ==
    \A i \in 1..Len(doneAtCall) : doneAtCall[i] >= i - 1

\* every invocation of action made so far has thrown
AllThrew == \A i \in 1..calls : fnPlan[i] = "throw"

(***************************************************************************)
(* C24: withErrorHandling(action, context, {retries, retryDelay,           *)
(* shouldThrow}): when action throws on every invocation it is invoked     *)
(* exactly retries+1 times and then handleError is invoked exactly once    *)
(* with the last error, which is re-raised when shouldThrow is true and    *)
(* swallowed (the call returns without a result) when it is false; when an *)
(* invocation succeeds its result is returned, no later invocation happens *)
(* and handleError is never invoked.                                       *)
(***************************************************************************)
C24_RetriesThenHandleErrorOnce ==
    /\ AllThrew =>
          /\ calls <= maxRetries + 1
          /\ handled # <<>> <=> rState \in {"failed", "swallowed"}
          /\ rState \in {"failed", "swallowed"} =>
                /\ calls = maxRetries + 1
                /\ Len(handled) = 1
                /\ handled[1].error = ErrAt(calls)
                /\ handled[1].shouldThrow = args.shouldThrow
                /\ IF args.shouldThrow
                   THEN rState = "failed" /\ rOut = <<ErrAt(calls)>>
                   ELSE rState = "swallowed" /\ rOut = <<>>
          /\ rState = "executing" => calls <= maxRetries
    /\ \A i \in 1..calls :
          fnPlan[i] = "return" =>
              /\ i = calls
              /\ rState = "succeeded"
              /\ rOut = <<ValueAt(i)>>
              /\ handled = <<>>

\* C24's case: three throwing invocations with retries = 2, the last error
\* handed to handleError once and swallowed
C24_Witness ==
    /\ maxRetries = 2
    /\ calls = 3
    /\ AllThrew
    /\ ~args.shouldThrow
    /\ rState = "swallowed"
    /\ Len(handled) = 1
    /\ handled[1].error = ErrAt(3)

C20_SensitiveTextNotLogged ==
    \A i \in 1..Len(cmdLog) : cmdLog[i].message \notin Secrets

(***************************************************************************)
(* The global uncaught:exception handler of the support file.  An error    *)
(* message is a sequence of up to MaxWords of the pieces below.            *)
(***************************************************************************)
MaxWords == 4

Words == {"ResizeObserver", " ", "loop", "Error: ", "resizeobserver loop"}

Messages == UNION {[1..n -> Words] : n \in 0..MaxWords}

ResizeObserverLoop == <<"ResizeObserver", " ", "loop">>

\* a slip: startsWith in place of includes
uncaughtException_startsWith(message) ==
    IF /\ Len(message) >= Len(ResizeObserverLoop)
       /\ SubSeq(message, 1, Len(ResizeObserverLoop)) = ResizeObserverLoop
    THEN FALSE
    ELSE TRUE

\* the handler's return value:
\* if (err.message.includes('ResizeObserver loop')) return false; return true
uncaughtException(message) ==
    IF Contains(message, ResizeObserverLoop) THEN FALSE ELSE TRUE

InitUncaught ==
    /\ OthersIdle
    /\ args \in [message : Messages]
    /\ ret = <<>>
    /\ LocatorIdle
    /\ RetryIdle
    /\ EnvelopeIdle

\* the application throws: the handler logs the message and answers
OnUncaughtException ==
    /\ ret = <<>>
    /\ runLog' = Append(runLog, <<"Uncaught exception: ">> \o args.message)
    /\ ret' = <<uncaughtException(args.message)>>
    /\ UNCHANGED <<args, lvars, rvars, evars, authToken, cookies, requests,
                   svars, mvars>>

NextUncaught == OnUncaughtException

SpecUncaught == InitUncaught /\ [][NextUncaught]_vars

(***************************************************************************)
(* C25: the global uncaught:exception handler suppresses test failure      *)
(* (returns false) exactly when the error message contains                 *)
(* 'ResizeObserver loop' and lets the test fail (returns true) for every   *)
(* other uncaught exception.                                               *)
(***************************************************************************)
C25_OnlyResizeObserverSuppressed ==
    ret # <<>> =>
        (ret[1] = FALSE <=>
            \E i \in 1..Len(args.message) :
                /\ i + 2 <= Len(args.message)
                /\ args.message[i] = "ResizeObserver"
                /\ args.message[i + 1] = " "
                /\ args.message[i + 2] = "loop")

\* C25's case: the phrase inside a longer message, the failure suppressed
C25_Witness ==
    /\ args.message = <<"Error: ", "ResizeObserver", " ", "loop">>
    /\ ret = <<FALSE>>

(***************************************************************************)
(* apiRequest and retryRequest (apiHelper).  fnPlan[i] is the status of    *)
(* the response to the i-th request sent, maxRetries and delay are         *)
(* retryRequest's parameters, calls holds attempts, and args holds the     *)
(* caller's options: failOnStatusCode is <<>> when the caller leaves it    *)
(* out.                                                                    *)
(***************************************************************************)
ResponseStatuses == {200, 404, 500, 503}

NoToken == <<>>

\* mergedOptions = { ...defaultOptions, ...options, headers: ... }: a key of
\* options replaces the default failOnStatusCode: false
mergedOptions(options) ==
    [failOnStatusCode |-> IF options.failOnStatusCode # <<>>
                          THEN options.failOnStatusCode[1]
                          ELSE FALSE]

\* cy.request: with failOnStatusCode it fails on a status other than 2xx, 3xx
requestFails(options, status) ==
    mergedOptions(options).failOnStatusCode /\ status >= 400

Request(auth, status) == [auth |-> auth, status |-> status]

StatusError(status) ==
    Error(<<"cy.request() failed on: status code ", ToString(status)>>)

\* the response callback's test: response.status >= 500 && attempts < maxRetries
retryAgain(status, attempts, retries) == status >= 500 /\ attempts < retries

InitRequest ==
    /\ OthersIdle
    /\ fnPlan \in [1..(MaxRetries + 1) -> ResponseStatuses]
    /\ maxRetries \in 0..MaxRetries
    /\ delay \in Delays
    /\ args \in [failOnStatusCode : {<<>>, <<TRUE>>, <<FALSE>>}]
    /\ retriesLeft = 0
    /\ lastError = <<>>
    /\ calls = 0
    /\ waits = <<>>
    /\ waitsDone = 0
    /\ doneAtCall = <<>>
    /\ rState = "pending"
    /\ rOut = <<>>
    /\ ret = <<>>
    /\ LocatorIdle
    /\ EnvelopeIdle

\* retryRequest(options, maxRetries, delay): let attempts = 0; makeRequest()
\* counts the attempt and queues apiRequest's cy.request
retryRequest ==
    /\ rState = "pending"
    /\ calls' = calls + 1
    /\ rState' = "requesting"
    /\ UNCHANGED <<fnPlan, maxRetries, delay, retriesLeft, lastError, waits,
                   waitsDone, doneAtCall, rOut>>
    /\ UNCHANGED notR

\* the queued cy.request runs; on a response apiRequest logs it and
\* makeRequest's callback decides between another attempt and the response
RunRequest ==
    /\ rState = "requesting"
    /\ LET status == fnPlan[calls]
       IN  /\ requests' = Append(requests, Request(NoToken, status))
           /\ IF requestFails(args, status)
              THEN /\ rState' = "failed"
                   /\ rOut' = <<StatusError(status)>>
                   /\ UNCHANGED <<calls, waits, runLog>>
              ELSE /\ runLog' = runLog \o << <<"API Request: ">>,
                                            <<"Response Status: ", ToString(status)>> >>
                   /\ IF retryAgain(status, calls, maxRetries)
                      THEN \* cy.wait(delay); return makeRequest()
                           /\ waits' = Append(waits, delay)
                           /\ calls' = calls + 1
                           /\ rState' = "waiting"
                           /\ UNCHANGED rOut
                      ELSE /\ rState' = "succeeded"
                           /\ rOut' = <<[status |-> status]>>
                           /\ UNCHANGED <<calls, waits>>
    /\ UNCHANGED <<fnPlan, maxRetries, delay, retriesLeft, lastError, waitsDone,
                   doneAtCall>>
    /\ UNCHANGED <<lvars, pvars, evars, authToken, cookies, svars, mvars>>

\* the cy.wait(delay) queued by the callback runs before the next request
RunWaitRequest ==
    /\ rState = "waiting"
    /\ waitsDone' = waitsDone + 1
    /\ rState' = "requesting"
    /\ UNCHANGED <<fnPlan, maxRetries, delay, retriesLeft, lastError, calls, waits,
                   doneAtCall, rOut>>
    /\ UNCHANGED notR

NextRequest == retryRequest \/ RunRequest \/ RunWaitRequest

SpecRequest == InitRequest /\ [][NextRequest]_vars

RequestDone == rState \in {"succeeded", "failed"}

Max(a, b) == IF a >= b THEN a ELSE b

(***************************************************************************)
(* C23: retryRequest(options, maxRetries, delay) sends at least one and at *)
(* most max(1, maxRetries) requests in total, sends a further request only *)
(* after a response with status >= 500, returns the first response with    *)
(* status < 500 or otherwise the response of the last permitted attempt,   *)
(* and never raises an error because of a 5xx status.                      *)
(***************************************************************************)
C23_RetryRequestBounded ==
    /\ Len(requests) <= Max(1, maxRetries)
    /\ \A i \in 2..Len(requests) : requests[i - 1].status >= 500
    /\ RequestDone =>
          LET n == Len(requests)
          IN  /\ n >= 1
              /\ (requests[n].status >= 500 /\ rState = "succeeded")
                    => n = Max(1, maxRetries)
              /\ requests[n].status >= 500 => rState # "failed"
              /\ rState = "succeeded" => rOut = <<[status |-> requests[n].status]>>

(***************************************************************************)
(* C28: the three retry mechanisms interpret their retry bound             *)
(* identically: given the same bound n >= 1 and an operation that fails on *)
(* every attempt, retry(fn, n), withErrorHandling(action, ctx,             *)
(* {retries: n}) and retryRequest(options, n) each perform the same total  *)
(* number of attempts, n+1.  withErrorHandling makes n+1 invocations       *)
(* (C24); this is retryRequest's side of the comparison.                   *)
(***************************************************************************)
C28_SameBoundSameAttempts ==
    (/\ RequestDone
     /\ maxRetries >= 1
     /\ args.failOnStatusCode # <<TRUE>>
     /\ \A i \in 1..Len(requests) : requests[i].status >= 500)
        => Len(requests) = maxRetries + 1

(***************************************************************************)
(* The token-based authentication commands: cy.loginViaApi (support file), *)
(* authenticatedRequest (apiHelper) and the cy.apiRequestWithToken         *)
(* command.  ret is the history of the calls made: what each was given,    *)
(* how it ended and the stored token and cookie before and after it.       *)
(***************************************************************************)
Tokens == {"tokA", "tokB", "tokC"}

\* login response bodies: each of the three fields absent or a token
LoginBodies ==
    [token : {<<>>, <<"tokA">>}, accessToken : {<<>>, <<"tokB">>},
     access_token : {<<>>, <<"tokC">>}]

LoginStatuses == {200, 401, 500}

\* const token = response.body.token || response.body.accessToken
responseToken(body) ==
    IF body.token # <<>> THEN body.token ELSE body.accessToken

\* `Bearer ${token}`: an unset token is interpolated as 'undefined'
Bearer(token) ==
    <<"Bearer ", IF token # <<>> THEN token[1] ELSE "undefined">>

LoginFailed(status) ==
    Error(<<"Login failed with status: ", ToString(status)>>)

NoAuthToken == Error(<<"No auth token stored. Please login first.">>)

\* logStep(description): cy.task('log', '[STEP] ...') and cy.log('**...**')
StepLog(description) == <<"[STEP] ", description>>

Outcome(op, status, body, err, sent) ==
    [op |-> op, status |-> status, body |-> body, err |-> err, sent |-> sent,
     tokenBefore |-> authToken, tokenAfter |-> authToken',
     cookieBefore |-> cookies["auth_token"], cookieAfter |-> cookies'["auth_token"]]

InitAuth ==
    /\ AuthIdle
    /\ SessionIdle
    /\ MailIdle
    /\ args = <<>>
    /\ ret = <<>>
    /\ LocatorIdle
    /\ RetryIdle
    /\ EnvelopeIdle

\* cy.loginViaApi(username, password) and its response callback
loginViaApi(status, body) ==
    /\ Len(ret) < MaxCalls
    /\ requests' = Append(requests, Request(NoToken, status))
    /\ IF status = 200
       THEN LET token == responseToken(body)
            IN  /\ IF token # <<>>
                   THEN /\ authToken' = token
                        /\ cookies' = [cookies EXCEPT !["auth_token"] = token]
                   ELSE UNCHANGED <<authToken, cookies>>
                /\ runLog' = runLog \o <<StepLog("Logging in via API"),
                                          StepLog("API Login successful")>>
                /\ cmdLog' = cmdLog \o <<LogEntry("log", "Logging in via API"),
                                          LogEntry("log", "API Login successful")>>
                /\ ret' = Append(ret, Outcome("loginViaApi", status, <<body>>,
                                              <<>>, TRUE))
       ELSE /\ UNCHANGED <<authToken, cookies>>
            /\ runLog' = Append(runLog, StepLog("Logging in via API"))
            /\ cmdLog' = Append(cmdLog, LogEntry("log", "Logging in via API"))
            /\ ret' = Append(ret, Outcome("loginViaApi", status, <<body>>,
                                          <<LoginFailed(status)>>, TRUE))
    /\ UNCHANGED <<args, lvars, rvars, dom, events, failure, logsRun, shotsRun,
                   handled, svars, mvars>>

\* authenticatedRequest(options): throws while no token is stored
authenticatedRequest(status) ==
    /\ Len(ret) < MaxCalls
    /\ UNCHANGED <<authToken, cookies>>
    /\ LET token == authToken
       IN  IF token = <<>>
           THEN /\ ret' = Append(ret, Outcome("authenticatedRequest", status, <<>>,
                                              <<NoAuthToken>>, FALSE))
                /\ UNCHANGED <<requests, runLog>>
           ELSE /\ requests' = Append(requests, Request(Bearer(token), status))
                /\ runLog' = runLog \o << <<"API Request: ">>,
                                         <<"Response Status: ", ToString(status)>> >>
                /\ ret' = Append(ret, Outcome("authenticatedRequest", status, <<>>,
                                              <<>>, TRUE))
    /\ UNCHANGED <<args, lvars, rvars, evars, svars, mvars>>

\* the cy.apiRequestWithToken command: the stored token, whatever it is, goes
\* to apiRequestWithToken
apiRequestWithTokenCommand(status) ==
    /\ Len(ret) < MaxCalls
    /\ UNCHANGED <<authToken, cookies>>
    /\ LET token == authToken
       IN  /\ requests' = Append(requests, Request(Bearer(token), status))
           /\ runLog' = runLog \o << <<"API Request: ">>,
                                    <<"Response Status: ", ToString(status)>> >>
           /\ ret' = Append(ret, Outcome("apiRequestWithToken", status, <<>>,
                                         <<>>, TRUE))
    /\ UNCHANGED <<args, lvars, rvars, evars, svars, mvars>>

NextAuth ==
    \/ \E status \in LoginStatuses, body \in LoginBodies : loginViaApi(status, body)
    \/ \E status \in ResponseStatuses : authenticatedRequest(status)
    \/ \E status \in ResponseStatuses : apiRequestWithTokenCommand(status)

SpecAuth == InitAuth /\ [][NextAuth]_vars

\* the tokens a login response body carries
BodyTokens(body) == body.token \o body.accessToken \o body.access_token

(***************************************************************************)
(* C27: cy.loginViaApi: when the login response status is not 200 the      *)
(* command fails with 'Login failed with status: <status>' and leaves the  *)
(* stored authToken and the auth_token cookie unchanged; whenever the      *)
(* command completes without error, an auth token taken from the response  *)
(* has been stored in Cypress.env('authToken') and in the auth_token       *)
(* cookie.                                                                 *)
(***************************************************************************)
C27_LoginViaApiStoresToken ==
    \A i \in 1..Len(ret) :
        LET o == ret[i]
        IN  o.op = "loginViaApi" =>
              /\ o.status # 200 =>
                    /\ o.err = <<LoginFailed(o.status)>>
                    /\ o.tokenAfter = o.tokenBefore
                    /\ o.cookieAfter = o.cookieBefore
              /\ o.err = <<>> =>
                    /\ o.tokenAfter # <<>>
                    /\ \E j \in 1..Len(BodyTokens(o.body[1])) :
                          o.tokenAfter = <<BodyTokens(o.body[1])[j]>>
                    /\ o.cookieAfter = o.tokenAfter

(***************************************************************************)
(* C30: no authenticated request is sent while no auth token is stored: in *)
(* every reachable state where Cypress.env('authToken') is unset, both     *)
(* authenticatedRequest and the cy.apiRequestWithToken command fail with   *)
(* an error and issue no HTTP request, so an Authorization header is only  *)
(* ever sent as 'Bearer <stored token>'.                                   *)
(***************************************************************************)
C30_NoRequestWithoutToken ==
    /\ \A i \in 1..Len(ret) :
          (ret[i].op \in {"authenticatedRequest", "apiRequestWithToken"}
                /\ ret[i].tokenBefore = <<>>)
              => (ret[i].err # <<>> /\ ~ret[i].sent)
    /\ \A i \in 1..Len(requests) :
          requests[i].auth # NoToken =>
              \E t \in Tokens : requests[i].auth = <<"Bearer ", t>>

(***************************************************************************)
(* cy.loginOnce: cy.session([username, password], setup, { validate,       *)
(* cacheAcrossSpecs: true }).  sessions[id] is <<>> while nothing is       *)
(* saved under id and otherwise <<the saved 'session' cookie>>, which is   *)
(* itself <<>> once the cookie has expired.  A 'session' cookie carries    *)
(* the pair that logged in.  The login in setup is accepted, rejected (the *)
(* url stays on /login) or accepted without a 'session' cookie being set.  *)
(***************************************************************************)
LoginOutcomes == {"accepted", "rejected", "noCookie"}

\* the 'session' cookie after the UI login steps of setup
setupCookie(c, outcome) == IF outcome = "accepted" THEN <<c>> ELSE <<>>

\* validate(): cy.getCookie('session').should('exist')
validate(cookie) == cookie # <<>>

\* what the UI login steps put in the command log
SetupLog(c) ==
    <<LogEntry("visit", "/login"), LogEntry("type", c[1]),
      LogEntry("type", c[2]), LogEntry("click", "")>>

LoginCall(c, hadSession, restored, logins, validateFailed, ok) ==
    [creds |-> c, hadSession |-> hadSession, restored |-> restored,
     logins |-> logins, validateFailed |-> validateFailed, ok |-> ok,
     cookie |-> cookies'["session"]]

InitSession ==
    /\ AuthIdle
    /\ SessionIdle
    /\ MailIdle
    /\ args = <<>>
    /\ ret = <<>>
    /\ LocatorIdle
    /\ RetryIdle
    /\ EnvelopeIdle

\* cy.loginOnce(username, password) in a test: cy.session creates the
\* session when none is saved under the id, and otherwise restores it and
\* creates it again when validate fails on what was restored
loginOnce(c, outcome) ==
    /\ Len(loginCalls) < MaxCalls
    /\ LET id == sessionId(c)
           saved == sessions[id]
           fresh == setupCookie(c, outcome)
       IN  IF saved # <<>> /\ validate(saved[1])
           THEN \* restored and valid: setup does not run
                /\ cookies' = [cookies EXCEPT !["session"] = saved[1]]
                /\ loginCalls' = Append(loginCalls,
                                        LoginCall(c, TRUE, TRUE, 0, FALSE, TRUE))
                /\ UNCHANGED <<sessions, cmdLog>>
           ELSE \* setup runs, then validate
                /\ cookies' = [cookies EXCEPT !["session"] = fresh]
                /\ cmdLog' = cmdLog \o SetupLog(c)
                /\ IF outcome # "rejected" /\ validate(fresh)
                   THEN sessions' = [sessions EXCEPT ![id] = <<fresh>>]
                   ELSE UNCHANGED sessions
                /\ loginCalls' = Append(loginCalls,
                      LoginCall(c, saved # <<>>, FALSE, 1,
                                saved # <<>> \/ outcome = "noCookie",
                                outcome = "accepted"))
    /\ UNCHANGED <<args, ret, lvars, rvars, dom, events, failure, logsRun, shotsRun,
                   handled, authToken, requests, runLog, mvars>>

\* the saved 'session' cookie of a session expires
ExpireSession(id) ==
    /\ sessions[id] # <<>>
    /\ sessions[id] # << <<>> >>
    /\ sessions' = [sessions EXCEPT ![id] = << <<>> >>]
    /\ UNCHANGED <<loginCalls, avars, mvars, pvars, lvars, rvars, evars>>

NextSession ==
    \/ \E c \in Creds, outcome \in LoginOutcomes : loginOnce(c, outcome)
    \/ \E id \in SessionIds : ExpireSession(id)

SpecSession == InitSession /\ [][NextSession]_vars

\* call i is the first call of cy.loginOnce with its credential pair
FirstCall(i) == \A j \in 1..(i - 1) : loginCalls[j].creds # loginCalls[i].creds

\* a call that does not log in restores a session and ends logged in as its
\* own pair, and so does every successful call
ReuseOnlyOwnSession ==
    \A i \in 1..Len(loginCalls) :
        LET call == loginCalls[i]
        IN  /\ call.logins = 0 => (call.restored /\ call.ok)
            /\ call.ok => call.cookie = <<call.creds>>
            /\ call.restored =>
                  \E j \in 1..(i - 1) :
                      /\ loginCalls[j].creds = call.creds
                      /\ loginCalls[j].logins = 1
                      /\ loginCalls[j].ok

(***************************************************************************)
(* C21, as stated: for a fixed (username, password) pair, over any         *)
(* sequence of tests calling cy.loginOnce, the UI login steps run on the   *)
(* first call and afterwards only when the validate check (the 'session'   *)
(* cookie exists) fails; every other call restores the cached session      *)
(* without performing the login, and calls with a different credential     *)
(* pair never reuse that session.                                          *)
(***************************************************************************)
C21_LoginOnceReuse ==
    /\ \A i \in 1..Len(loginCalls) :
          loginCalls[i].logins = 1 <=>
              (FirstCall(i) \/ loginCalls[i].validateFailed)
    /\ ReuseOnlyOwnSession

(***************************************************************************)
(* C21, amended: for a fixed (username, password) pair, over any sequence  *)
(* of tests calling cy.loginOnce, the UI login steps run on a call when no *)
(* session is saved for the pair (the first call, and every call until a   *)
(* login has succeeded) and otherwise only when the validate check (the    *)
(* 'session' cookie exists) fails; every other call restores the cached    *)
(* session without performing the login, and calls with a different        *)
(* credential pair never reuse that session.                               *)
(***************************************************************************)
C21_LoginOnceReuseOnceSaved ==
    /\ \A i \in 1..Len(loginCalls) :
          /\ loginCalls[i].logins = 1 <=>
                (~loginCalls[i].hadSession \/ loginCalls[i].validateFailed)
          /\ FirstCall(i) => ~loginCalls[i].hadSession
          /\ loginCalls[i].hadSession <=>
                \E j \in 1..(i - 1) :
                    /\ loginCalls[j].creds = loginCalls[i].creds
                    /\ loginCalls[j].ok
    /\ ReuseOnlyOwnSession

\* C21's case: a pair logs in, a second call with the pair restores the
\* session without logging in
C21_Witness ==
    /\ Len(loginCalls) = 2
    /\ loginCalls[1].creds = <<"alice", "hunter2">>
    /\ loginCalls[1].logins = 1 /\ loginCalls[1].ok
    /\ loginCalls[2].creds = <<"alice", "hunter2">>
    /\ loginCalls[2].logins = 0 /\ loginCalls[2].restored
    /\ cookies["session"] = << <<"alice", "hunter2">> >>

(***************************************************************************)
(* C29: no login path writes the password value to the run log or the      *)
(* command log: in LoginPage.login, cy.login, cy.loginOnce and             *)
(* cy.loginViaApi every action that types or sends the password is issued  *)
(* with logging of the value disabled and no logStep message contains it,  *)
(* so two runs that differ only in the password produce identical log      *)
(* output.  This is cy.loginOnce's part.                                   *)
(***************************************************************************)
C29_PasswordNeverLogged ==
    /\ \A i \in 1..Len(cmdLog) : \A c \in Creds : cmdLog[i].message # c[2]
    /\ \A i \in 1..Len(runLog) : \A c \in Creds : ~Contains(runLog[i], <<c[2]>>)

(***************************************************************************)
(* scripts/sendEmailReport.js.  args is the environment of the run:        *)
(* SMTP_USER, SMTP_PASS and EMAIL_RECIPIENTS, each <<>> while unset;       *)
(* EMAIL_RECIPIENTS is a string of up to MaxEnv characters.  ret is the    *)
(* trace of the checks the script has made.                                *)
(***************************************************************************)
MaxEnv == 3

EnvChars == {",", " ", "a", "b"}

EnvStrings == UNION {[1..n -> EnvChars] : n \in 0..MaxEnv}

EnvValues == {<<>>, <<"">>, <<"set">>}

\* process.env.X || '': an unset variable reads as the empty string
OrEmpty(v) == IF v = <<>> THEN <<>> ELSE v[1]

\* String.prototype.split(','): the pieces between the commas
RECURSIVE split(_)
split(str) ==
    IF \A k \in 1..Len(str) : str[k] # ","
    THEN <<str>>
    ELSE LET k == CHOOSE k \in 1..Len(str) :
                      str[k] = "," /\ \A j \in 1..(k - 1) : str[j] # ","
         IN  <<SubSeq(str, 1, k - 1)>> \o split(SubSeq(str, k + 1, Len(str)))

\* String.prototype.trim(): the blanks at both ends removed
RECURSIVE trim(_)
trim(str) ==
    IF str = <<>> THEN <<>>
    ELSE IF Head(str) = " " THEN trim(Tail(str))
    ELSE IF str[Len(str)] = " " THEN trim(SubSeq(str, 1, Len(str) - 1))
    ELSE str

\* .map(e => e.trim()).filter(e => e)
RECURSIVE trimAndFilter(_)
trimAndFilter(pieces) ==
    IF pieces = <<>> THEN <<>>
    ELSE LET e == trim(Head(pieces))
         IN  (IF e = <<>> THEN <<>> ELSE <<e>>) \o trimAndFilter(Tail(pieces))

\* config.recipients
recipients(env) == trimAndFilter(split(OrEmpty(env.EMAIL_RECIPIENTS)))

\* a slip: the script stops only when both credentials are missing
credentialsMissing_both(env) ==
    (env.SMTP_USER = <<>> \/ env.SMTP_USER = <<"">>)
        /\ (env.SMTP_PASS = <<>> \/ env.SMTP_PASS = <<"">>)

\* !config.smtp.auth.user || !config.smtp.auth.pass
credentialsMissing(env) ==
    (env.SMTP_USER = <<>> \/ env.SMTP_USER = <<"">>)
        \/ (env.SMTP_PASS = <<>> \/ env.SMTP_PASS = <<"">>)

Mail(env) == [from |-> env.SMTP_USER, to |-> recipients(env)]

InitMail ==
    /\ AuthIdle
    /\ SessionIdle
    /\ MailIdle
    /\ args \in [SMTP_USER : EnvValues, SMTP_PASS : EnvValues,
                  EMAIL_RECIPIENTS : {<<>>} \cup {<<str>> : str \in EnvStrings}]
    /\ ret = <<>>
    /\ LocatorIdle
    /\ RetryIdle
    /\ EnvelopeIdle

\* process.exit(1) after a failed check
Exit1(event) ==
    /\ ret' = Append(ret, event)
    /\ mpc' = "exited"
    /\ exitCode' = <<1>>
    /\ UNCHANGED mailsSent

Pass(event, next) ==
    /\ ret' = Append(ret, event)
    /\ mpc' = next
    /\ UNCHANGED <<exitCode, mailsSent>>

\* if (!config.smtp.auth.user || !config.smtp.auth.pass) process.exit(1)
CheckCredentials ==
    /\ mpc = "start"
    /\ IF credentialsMissing(args)
       THEN Exit1("credentials missing")
       ELSE Pass("credentials configured", "recipients")
    /\ UNCHANGED <<args, lvars, rvars, evars, avars, svars>>

\* if (config.recipients.length === 0) process.exit(1)
CheckRecipients ==
    /\ mpc = "recipients"
    /\ IF Len(recipients(args)) = 0
       THEN Exit1("no recipients")
       ELSE Pass("recipients configured", "verify")
    /\ UNCHANGED <<args, lvars, rvars, evars, avars, svars>>

\* await transporter.verify(): on rejection process.exit(1)
Verify(ok) ==
    /\ mpc = "verify"
    /\ IF ok THEN Pass("verified", "send") ELSE Exit1("verify failed")
    /\ UNCHANGED <<args, lvars, rvars, evars, avars, svars>>

\* await transporter.sendMail(mailOptions): on rejection process.exit(1)
SendMail(ok) ==
    /\ mpc = "send"
    /\ IF ok
       THEN /\ mailsSent' = Append(mailsSent, Mail(args))
            /\ ret' = Append(ret, "sent")
            /\ mpc' = "done"
            /\ exitCode' = <<0>>
       ELSE Exit1("send failed")
    /\ UNCHANGED <<args, lvars, rvars, evars, avars, svars>>

NextMail ==
    \/ CheckCredentials
    \/ CheckRecipients
    \/ \E ok \in BOOLEAN : Verify(ok)
    \/ \E ok \in BOOLEAN : SendMail(ok)

SpecMail == InitMail /\ [][NextMail]_vars

\* event e is in the trace of the run
Happened(e) == \E k \in 1..Len(ret) : ret[k] = e

\* the variable is set to a non-empty value
Configured(v) == v # <<>> /\ v[1] # ""

\* EMAIL_RECIPIENTS names at least one recipient
SomeRecipient ==
    /\ args.EMAIL_RECIPIENTS # <<>>
    /\ \E k \in 1..Len(args.EMAIL_RECIPIENTS[1]) :
          args.EMAIL_RECIPIENTS[1][k] \notin {",", " "}

(***************************************************************************)
(* C26: sendEmailReport sends at most one mail per run and only after all  *)
(* of these have held: SMTP user and password are both configured, at      *)
(* least one recipient is configured, and the SMTP connection              *)
(* verification succeeded; when any of these checks fails, or when sending *)
(* fails, the process exits with code 1 and no mail has been sent.         *)
(***************************************************************************)
C26_MailOnlyAfterAllChecks ==
    /\ Len(mailsSent) <= 1
    /\ mailsSent # <<>> =>
          /\ Configured(args.SMTP_USER) /\ Configured(args.SMTP_PASS)
          /\ SomeRecipient
          /\ Happened("verified")
          /\ \A k \in 1..Len(mailsSent[1].to) :
                /\ mailsSent[1].to[k] # <<>>
                /\ \A j \in 1..Len(mailsSent[1].to[k]) :
                      mailsSent[1].to[k][j] # ","
    /\ (\/ ret # <<>> /\ ~(Configured(args.SMTP_USER) /\ Configured(args.SMTP_PASS))
        \/ Len(ret) >= 2 /\ ~SomeRecipient
        \/ Happened("verify failed")
        \/ Happened("send failed"))
          => (exitCode = <<1>> /\ mailsSent = <<>> /\ mpc = "exited")
    /\ exitCode = <<1>> => mailsSent = <<>>

\* C26's case: every check passed and the one mail went to both recipients
C26_Witness ==
    /\ args.EMAIL_RECIPIENTS = << <<"a", ",", "b">> >>
    /\ mpc = "done"
    /\ Len(mailsSent) = 1
    /\ mailsSent[1].to = << <<"a">>, <<"b">> >>
    /\ Happened("verified")

====
